---- MODULE Spec2Model ----
(***************************************************************************)
(* A model of the semantic query layer of mos_tattoo_backend:              *)
(*   dashboards/query_builder.py  ColumnMetadata, QueryBuilder             *)
(*   dashboards/models.py         DataSource, DashboardBlock               *)
(* Each subsystem has its own specification (SpecSql, SpecBuild,           *)
(* SpecNormalize, SpecSave, SpecGetData); the variables of the other       *)
(* subsystems stay at their idle values.                                   *)
(***************************************************************************)
EXTENDS Integers, Sequences, FiniteSets, TLC

VARIABLES
    query,          \* the SQL text handed to the safety validators
    sql_verdict,    \* what the two validators answered for it
    builder,        \* the QueryBuilder: base_query and columns_metadata
    intent,         \* the arguments of the last build_analytical_query call
    built,          \* what that call produced
    block,          \* the DashboardBlock: x_axis_granularity, y_axis_aggregations
    query_results,  \* the rows handed to normalize_query_results
    normalized,     \* what normalize_query_results produced
    ds,             \* the DataSource instance in memory
    db,             \* the stored DataSource record (Missing: no record)
    now,            \* timezone.now(), counted in calls of save
    last_save,      \* what the last call of DataSource.save did
    applied_filters,\* the filters of a request for a block's data
    got,            \* what the last call that asked a DataSource for data did
    builders,       \* the QueryBuilder objects of a session, with their constructor arguments
    calls,          \* the build_analytical_query calls made on them, in order
    execution,      \* the QueryExecutor.execute_query call in progress
    probe,          \* the last call of a DataSource introspection method
    typname,        \* the PostgreSQL type name of a column of the probe
    metadata,       \* the ColumnMetadata dict the introspection builds for it
    response,       \* the JSON body a data endpoint of the API answered with
    template,       \* the DashboardTemplate: filterable_fields
    instance_filter_sql,\* the filtro_sql of the DashboardInstance
    filter_queries  \* the queries get_filter_metadata sent, in order

sqlVars   == <<query, sql_verdict>>
buildVars == <<builder, intent, built>>
normVars  == <<block, query_results, normalized>>
saveVars  == <<ds, db, now, last_save>>
dataVars  == <<applied_filters, got>>
callVars  == <<builders, calls>>
execVars  == <<execution, probe>>
inferVars == <<typname, metadata>>
viewVars  == <<response>>
filterVars == <<template, instance_filter_sql, filter_queries>>
vars      == <<query, sql_verdict, builder, intent, built, block, query_results, normalized,
               ds, db, now, last_save, applied_filters, got,
               builders, calls,
               execution, probe,
               typname, metadata,
               response,
               template, instance_filter_sql, filter_queries>>

\* The marker of a value not computed yet.
Pending == [pending |-> TRUE]

(***************************************************************************)
(* Strings.  TLC strings support Len, \o and SubSeq; a character is a      *)
(* string of length one.                                                   *)
(***************************************************************************)
CharAt(s, i) == SubSeq(s, i, i)

UpperLetters == "ABCDEFGHIJKLMNOPQRSTUVWXYZ"
LowerLetters == "abcdefghijklmnopqrstuvwxyz"
Digits       == "0123456789"

InStr(c, s) == \E i \in 1..Len(s) : CharAt(s, i) = c

\* str.lower() on one character.
LowerChar(c) ==
    IF InStr(c, UpperLetters)
    THEN CharAt(LowerLetters, CHOOSE i \in 1..26 : CharAt(UpperLetters, i) = c)
    ELSE c

RECURSIVE Lower(_)
Lower(s) == IF s = "" THEN "" ELSE LowerChar(CharAt(s, 1)) \o Lower(SubSeq(s, 2, Len(s)))

IsSpace(c) == c \in {" ", "\t", "\n"}

\* str.strip(): leading and trailing whitespace removed.
Strip(s) ==
    LET keep == {i \in 1..Len(s) : ~IsSpace(CharAt(s, i))}
    IN  IF keep = {} THEN ""
        ELSE LET lo == CHOOSE i \in keep : \A j \in keep : i <= j
                 hi == CHOOSE i \in keep : \A j \in keep : j <= i
             IN  SubSeq(s, lo, hi)

StartsWith(s, p) == Len(s) >= Len(p) /\ SubSeq(s, 1, Len(p)) = p

\* A character of the regex class \w.
IsWordChar(c) == InStr(c, LowerLetters) \/ InStr(c, UpperLetters) \/ InStr(c, Digits) \/ c = "_"

\* re.search(r"\bkeyword\b", s): keyword occurs in s with a word boundary on
\* both sides (keyword begins and ends with a word character).
SearchSubstring(s, keyword) ==
    \E i \in 1..(Len(s) - Len(keyword) + 1) : SubSeq(s, i, i + Len(keyword) - 1) = keyword

\* The search without the word boundaries: plain substring matching.
SearchWord_NoBoundary(s, keyword) ==
    \E i \in 1..(Len(s) - Len(keyword) + 1) : SubSeq(s, i, i + Len(keyword) - 1) = keyword

SearchWord(s, keyword) ==
    \E i \in 1..(Len(s) - Len(keyword) + 1) :
        /\ SubSeq(s, i, i + Len(keyword) - 1) = keyword
        /\ (i = 1 \/ ~IsWordChar(CharAt(s, i - 1)))
        /\ (i + Len(keyword) - 1 = Len(s) \/ ~IsWordChar(CharAt(s, i + Len(keyword))))

(***************************************************************************)
(* SQL safety validation: DataSource._validate_sql_security and            *)
(* QueryBuilder.validate_safe_query.                                       *)
(***************************************************************************)
forbidden_keywords ==
    <<"insert", "update", "delete", "drop", "create", "alter",
      "truncate", "grant", "revoke", "execute", "call">>

Accept == [ok |-> TRUE, reason |-> "", keyword |-> ""]
Reject(reason, keyword) == [ok |-> FALSE, reason |-> reason, keyword |-> keyword]

\* The keyword loop of both validators: the first forbidden keyword found.
FirstForbidden(sql_clean) ==
    LET hits == {k \in 1..Len(forbidden_keywords) : SearchWord(sql_clean, forbidden_keywords[k])}
    IN  IF hits = {} THEN ""
        ELSE forbidden_keywords[CHOOSE k \in hits : \A j \in hits : k <= j]

\* QueryBuilder.validate_safe_query(query) -> (is_safe, error_message)
validate_safe_query(q) ==
    LET query_lower == Strip(Lower(q))
    IN  IF InStr(";", q) THEN Reject("semicolon", "")
        ELSE IF ~(StartsWith(query_lower, "select") \/ StartsWith(query_lower, "with"))
        THEN Reject("start", "")
        ELSE IF FirstForbidden(query_lower) # ""
        THEN Reject("keyword", FirstForbidden(query_lower))
        ELSE Accept

\* DataSource._validate_sql_security(sql): returns (Accept) or raises
\* ValidationError (Reject); an empty sql returns at once.
validate_sql_security(sql) ==
    LET sql_clean == Lower(Strip(sql))
    IN  IF sql = "" THEN Accept
        ELSE IF InStr(";", sql) THEN Reject("semicolon", "")
        ELSE IF ~(StartsWith(sql_clean, "select") \/ StartsWith(sql_clean, "with"))
        THEN Reject("start", "")
        ELSE IF FirstForbidden(sql_clean) # ""
        THEN Reject("keyword", FirstForbidden(sql_clean))
        ELSE Accept

\* The candidate texts: concatenations of at most MaxSqlPieces pieces.
MaxSqlPieces == 3
SqlPieces ==
    {"select ", "With ", " ", ";", "update", "d_at", "x_", "call", "Drop"}

RECURSIVE Concat(_)
Concat(ps) == IF ps = <<>> THEN "" ELSE Head(ps) \o Concat(Tail(ps))

SqlTexts == {Concat(ps) : ps \in UNION {[1..n -> SqlPieces] : n \in 0..MaxSqlPieces}}

(***************************************************************************)
(* Python values that travel as data (filter operands, row values).        *)
(***************************************************************************)
PyNone     == [t |-> "none"]
PyStr(s)   == [t |-> "str", s |-> s]
PyList(l)  == [t |-> "list", l |-> l]

\* Python truthiness of such a value.
Truthy(v) ==
    CASE v.t = "none" -> FALSE
      [] v.t = "str"  -> v.s # ""
      [] v.t = "list" -> v.l # <<>>
      [] OTHER        -> TRUE

\* A field argument that is not set: None and "" are both falsy, and every
\* test the code makes on such an argument is a truthiness test.
NoField == ""

RECURSIVE Join(_, _)
Join(parts, sep) ==
    IF parts = <<>> THEN ""
    ELSE IF Len(parts) = 1 THEN parts[1]
    ELSE parts[1] \o sep \o Join(Tail(parts), sep)

UpperChar(c) ==
    IF InStr(c, LowerLetters)
    THEN CharAt(UpperLetters, CHOOSE i \in 1..26 : CharAt(LowerLetters, i) = c)
    ELSE c

RECURSIVE Upper(_)
Upper(s) == IF s = "" THEN "" ELSE UpperChar(CharAt(s, 1)) \o Upper(SubSeq(s, 2, Len(s)))

\* A dict as its items in insertion order; d[k] = v keeps the position of a
\* key that is already there.
DictKeys(d) == {d[i][1] : i \in 1..Len(d)}
DictSet(d, k, v) ==
    IF k \in DictKeys(d)
    THEN [i \in 1..Len(d) |-> IF d[i][1] = k THEN <<k, v>> ELSE d[i]]
    ELSE Append(d, <<k, v>>)

(***************************************************************************)
(* ColumnMetadata: the semantic classification of a column.                *)
(***************************************************************************)
datetime_types == <<"timestamp", "timestamptz", "date", "time", "timetz", "interval">>
numeric_types ==
    <<"integer", "int", "bigint", "smallint", "decimal", "numeric", "real",
      "double precision", "float", "money">>

AnyIn(tokens, s) == \E i \in 1..Len(tokens) : SearchSubstring(s, tokens[i])

\* The inference that tests the numeric type names first.
infer_semantic_type_NumericFirst(database_type) ==
    LET db_type == Lower(database_type)
    IN  IF AnyIn(numeric_types, db_type) THEN "measure"
        ELSE IF AnyIn(datetime_types, db_type) THEN "datetime"
        ELSE "dimension"

\* ColumnMetadata.infer_semantic_type(database_type)
infer_semantic_type(database_type) ==
    LET db_type == Lower(database_type)
    IN  IF AnyIn(datetime_types, db_type) THEN "datetime"
        ELSE IF AnyIn(numeric_types, db_type) THEN "measure"
        ELSE "dimension"

\* ColumnMetadata.get_allowed_aggregations(semantic_type)
get_allowed_aggregations(semantic_type) ==
    CASE semantic_type = "measure" ->
            <<"sum", "avg", "count", "count_distinct", "min", "max", "median">>
      [] semantic_type = "dimension" -> <<"count", "count_distinct">>
      [] semantic_type = "datetime" -> <<"count", "min", "max">>
      [] OTHER -> <<>>

\* Granularities for every type that can be ordered.
get_allowed_granularities_Ordered(semantic_type) ==
    IF semantic_type \in {"datetime", "measure"}
    THEN <<"hour", "day", "week", "month", "quarter", "year">>
    ELSE <<>>

\* ColumnMetadata.get_allowed_granularities(semantic_type)
get_allowed_granularities(semantic_type) ==
    IF semantic_type = "datetime"
    THEN <<"hour", "day", "week", "month", "quarter", "year">>
    ELSE <<>>

\* The metadata dict the introspection builds for one column of the probe.
ColumnMetadataOf(column_name, db_type) ==
    LET semantic_type == infer_semantic_type(db_type)
    IN  [name |-> column_name,
         database_type |-> db_type,
         semantic_type |-> semantic_type,
         nullable |-> TRUE,
         allowed_aggregations |-> get_allowed_aggregations(semantic_type),
         allowed_granularities |-> get_allowed_granularities(semantic_type)]

InSeq(x, seq) == \E i \in 1..Len(seq) : seq[i] = x

(***************************************************************************)
(* QueryBuilder                                                            *)
(***************************************************************************)
\* QueryBuilder.get_column_metadata: the _columns_index lookup (the last
\* column of a name wins, as in the dict comprehension).
HasColumn(cols, column_name) == \E i \in 1..Len(cols) : cols[i].name = column_name
get_column_metadata(cols, column_name) ==
    cols[CHOOSE i \in 1..Len(cols) :
            /\ cols[i].name = column_name
            /\ \A j \in 1..Len(cols) : cols[j].name = column_name => j <= i]

validate_column(cols, column_name) == HasColumn(cols, column_name)

\* The check that only looks the column up.
validate_aggregation_ColumnOnly(cols, column_name, aggregation) ==
    HasColumn(cols, column_name)

validate_aggregation(cols, column_name, aggregation) ==
    /\ HasColumn(cols, column_name)
    /\ InSeq(aggregation, get_column_metadata(cols, column_name).allowed_aggregations)

validate_granularity(cols, column_name, granularity) ==
    /\ HasColumn(cols, column_name)
    /\ InSeq(granularity, get_column_metadata(cols, column_name).allowed_granularities)

\* TimeGranularity.get_date_trunc_format
get_date_trunc_format(granularity) ==
    IF granularity \in {"hour", "day", "week", "month", "quarter", "year"}
    THEN granularity ELSE "day"

NoError == [kind |-> "", names |-> <<>>]
ValueError(kind, names) == [kind |-> kind, names |-> names]

\* The check of one metric in the validation loop.
MetricError(cols, metric) ==
    IF ~validate_column(cols, metric.field)
    THEN ValueError("metric_field", <<metric.field>>)
    ELSE IF ~validate_aggregation(cols, metric.field, metric.aggregation)
    THEN ValueError("aggregation", <<metric.aggregation, metric.field>>)
    ELSE NoError

RECURSIVE MetricsError(_, _)
MetricsError(cols, metrics) ==
    IF metrics = <<>> THEN NoError
    ELSE IF MetricError(cols, Head(metrics)) # NoError THEN MetricError(cols, Head(metrics))
    ELSE MetricsError(cols, Tail(metrics))

\* The granularity check: made only when both arguments are truthy.
GranularityError(cols, it) ==
    IF /\ it.x_axis_granularity # NoField
       /\ it.x_axis_field # NoField
       /\ ~validate_granularity(cols, it.x_axis_field, it.x_axis_granularity)
    THEN ValueError("granularity", <<it.x_axis_granularity, it.x_axis_field>>)
    ELSE NoError

\* The validation phase without the check of the series field.
ValidationError_NoSeriesCheck(cols, it) ==
    IF it.x_axis_field # NoField /\ ~validate_column(cols, it.x_axis_field)
    THEN ValueError("x_axis", <<it.x_axis_field>>)
    ELSE IF MetricsError(cols, it.y_axis_metrics) # NoError
    THEN MetricsError(cols, it.y_axis_metrics)
    ELSE GranularityError(cols, it)

\* The validation phase of build_analytical_query: the first check that
\* fails, in the order of the code.
ValidationError(cols, it) ==
    IF it.x_axis_field # NoField /\ ~validate_column(cols, it.x_axis_field)
    THEN ValueError("x_axis", <<it.x_axis_field>>)
    ELSE IF it.series_field # NoField /\ ~validate_column(cols, it.series_field)
    THEN ValueError("series", <<it.series_field>>)
    ELSE IF MetricsError(cols, it.y_axis_metrics) # NoError
    THEN MetricsError(cols, it.y_axis_metrics)
    ELSE GranularityError(cols, it)

\* The SELECT item of the X axis.
AxisSelect(cols, it) ==
    IF it.x_axis_field # NoField
    THEN IF /\ get_column_metadata(cols, it.x_axis_field).semantic_type = "datetime"
            /\ it.x_axis_granularity # NoField
         THEN "DATE_TRUNC('" \o get_date_trunc_format(it.x_axis_granularity) \o "', "
                  \o it.x_axis_field \o ") AS metric_date"
         ELSE it.x_axis_field \o " AS metric_date"
    ELSE "'Total' AS metric_date"

\* The SELECT item of the metric at position idx (1-based alias).
MetricSelect(metric, idx) ==
    LET agg   == Upper(metric.aggregation)
        alias == "metric_value_" \o ToString(idx)
    IN  IF agg = "COUNT_DISTINCT"
        THEN "COUNT(DISTINCT " \o metric.field \o ") AS " \o alias
        ELSE IF agg = "MEDIAN"
        THEN "PERCENTILE_CONT(0.5) WITHIN GROUP (ORDER BY " \o metric.field \o ") AS " \o alias
        ELSE agg \o "(" \o metric.field \o ") AS " \o alias

SelectParts(cols, it) ==
    <<AxisSelect(cols, it)>>
    \o [i \in 1..Len(it.y_axis_metrics) |-> MetricSelect(it.y_axis_metrics[i], i)]
    \o (IF it.series_field # NoField THEN <<it.series_field \o " AS series_key">> ELSE <<>>)

\* The filter state the WHERE phase threads through: where_clauses, params.
NoClauses == [where_clauses |-> <<>>, params |-> <<>>]
AddClause(w, clause, param_name, value) ==
    [where_clauses |-> Append(w.where_clauses, clause),
     params |-> DictSet(w.params, param_name, value)]
AddRaw(w, clause) == [w EXCEPT !.where_clauses = Append(@, clause)]

\* A variant that writes the same parameter name in every clause.
Placeholder_Fixed(param_name) == "%(value)s"

Placeholder(param_name) == "%(" \o param_name \o ")s"

\* date_start / date_end: applied only with an X axis and a truthy bound.
DateClauses(it, w) ==
    LET f  == it.filters
        w1 == IF it.x_axis_field # NoField /\ Truthy(f.date_start)
              THEN AddClause(w, it.x_axis_field \o " >= " \o Placeholder("date_start"),
                             "date_start", f.date_start)
              ELSE w
    IN  IF it.x_axis_field # NoField /\ Truthy(f.date_end)
        THEN AddClause(w1, it.x_axis_field \o " <= " \o Placeholder("date_end"),
                       "date_end", f.date_end)
        ELSE w1

\* filters["dimensions"]: a filter on a name that is no column is skipped.
RECURSIVE DimensionClauses(_, _, _)
DimensionClauses(cols, dims, w) ==
    IF dims = <<>> THEN w
    ELSE LET dim_field  == Head(dims)[1]
             dim_values == Head(dims)[2]
             param_name == "dim_" \o dim_field
         IN  DimensionClauses(cols, Tail(dims),
                IF ~validate_column(cols, dim_field) THEN w
                ELSE AddClause(w, dim_field \o " = ANY(" \o Placeholder(param_name) \o ")",
                               param_name, dim_values))

\* The comparison with the operand written into the clause.
CompareClause_Inline(field, sym, param_name, value, w) ==
    AddRaw(w, field \o " " \o sym \o " '" \o (IF value.t = "str" THEN value.s ELSE "") \o "'")

\* A comparison clause of a dynamic filter: the value goes to params, the
\* clause holds the placeholder.
CompareClause(field, sym, param_name, value, w) ==
    AddClause(w, field \o " " \o sym \o " " \o Placeholder(param_name), param_name, value)

\* One (operator, value) condition of a dynamic filter on field.
ConditionClause(field, operator, value, w) ==
    LET param_name == "dyn_" \o field \o "_" \o operator
    IN  CASE operator = "gte" -> CompareClause(field, ">=", param_name, value, w)
          [] operator = "lte" -> CompareClause(field, "<=", param_name, value, w)
          [] operator = "gt"  -> CompareClause(field, ">", param_name, value, w)
          [] operator = "lt"  -> CompareClause(field, "<", param_name, value, w)
          [] operator = "eq"  -> CompareClause(field, "=", param_name, value, w)
          [] operator = "in"  ->
                IF value.t = "list" /\ Len(value.l) > 0
                THEN AddClause(w, field \o " = ANY(" \o Placeholder(param_name) \o ")",
                               param_name, value)
                ELSE w
          [] OTHER -> w

RECURSIVE ConditionClauses(_, _, _)
ConditionClauses(field, conditions, w) ==
    IF conditions = <<>> THEN w
    ELSE ConditionClauses(field, Tail(conditions),
            ConditionClause(field, Head(conditions)[1], Head(conditions)[2], w))

\* filters["dynamic_filters"]: a filter on a name that is no column is skipped.
RECURSIVE DynamicClauses(_, _, _)
DynamicClauses(cols, dyn, w) ==
    IF dyn = <<>> THEN w
    ELSE DynamicClauses(cols, Tail(dyn),
            IF ~validate_column(cols, Head(dyn)[1]) THEN w
            ELSE ConditionClauses(Head(dyn)[1], Head(dyn)[2], w))

\* The raw trusted fragments: custom (or where_clause), then block_filter.
RawClauses(f, w) ==
    LET custom_filter == IF f.custom # "" THEN f.custom ELSE f.where_clause
        w1 == IF custom_filter # "" THEN AddRaw(w, "(" \o custom_filter \o ")") ELSE w
    IN  IF f.block_filter # "" THEN AddRaw(w1, "(" \o f.block_filter \o ")") ELSE w1

\* The whole "if filters:" block.
WhereClauses(cols, it) ==
    RawClauses(it.filters,
        DynamicClauses(cols, it.filters.dynamic_filters,
            DimensionClauses(cols, it.filters.dimensions,
                DateClauses(it, NoClauses))))

\* The grouping that always lists the axis alias.
GroupByParts_AxisAlways(it) ==
    <<"metric_date">> \o (IF it.series_field # NoField THEN <<"series_key">> ELSE <<>>)

\* group_by_parts
GroupByParts(it) ==
    (IF it.x_axis_field # NoField THEN <<"metric_date">> ELSE <<>>)
    \o (IF it.series_field # NoField THEN <<"series_key">> ELSE <<>>)

\* The assembly that emits ORDER BY whenever order_by is given.
QueryParts_OrderByAnyway(base_query, cols, it) ==
    LET w == WhereClauses(cols, it)
    IN  <<"WITH __base_data AS (", "  " \o Strip(base_query), ")", "SELECT",
          "  " \o Join(SelectParts(cols, it), ",\n  "), "FROM __base_data">>
        \o (IF w.where_clauses # <<>>
            THEN <<"WHERE", "  " \o Join(w.where_clauses, "\n  AND ")>> ELSE <<>>)
        \o (IF GroupByParts(it) # <<>>
            THEN <<"GROUP BY " \o Join(GroupByParts(it), ", ")>> ELSE <<>>)
        \o (IF it.order_by # NoField
            THEN <<"ORDER BY " \o it.order_by>> ELSE <<>>)
        \o (IF it.limit # 0 THEN <<"LIMIT " \o ToString(it.limit)>> ELSE <<>>)

\* query_parts, joined by newlines into final_query
QueryParts(base_query, cols, it) ==
    LET w == WhereClauses(cols, it)
    IN  <<"WITH __base_data AS (", "  " \o Strip(base_query), ")", "SELECT",
          "  " \o Join(SelectParts(cols, it), ",\n  "), "FROM __base_data">>
        \o (IF w.where_clauses # <<>>
            THEN <<"WHERE", "  " \o Join(w.where_clauses, "\n  AND ")>> ELSE <<>>)
        \o (IF GroupByParts(it) # <<>>
            THEN <<"GROUP BY " \o Join(GroupByParts(it), ", ")>> ELSE <<>>)
        \o (IF it.order_by # NoField /\ it.x_axis_field # NoField
            THEN <<"ORDER BY " \o it.order_by>> ELSE <<>>)
        \o (IF it.limit # 0 THEN <<"LIMIT " \o ToString(it.limit)>> ELSE <<>>)

\* What a call leaves behind: the exception raised, or the returned
\* (final_query, params) with the lists it was assembled from.
Raised(error) ==
    [raised |-> TRUE, error |-> error, select_parts |-> <<>>, where_clauses |-> <<>>,
     query_parts |-> <<>>, final_query |-> "", params |-> <<>>]
Returned(base_query, cols, it) ==
    [raised |-> FALSE, error |-> NoError,
     select_parts |-> SelectParts(cols, it),
     where_clauses |-> WhereClauses(cols, it).where_clauses,
     query_parts |-> QueryParts(base_query, cols, it),
     final_query |-> Join(QueryParts(base_query, cols, it), "\n"),
     params |-> WhereClauses(cols, it).params]

\* QueryBuilder.build_analytical_query
build_analytical_query(base_query, cols, it) ==
    IF ValidationError(cols, it) # NoError
    THEN Raised(ValidationError(cols, it))
    ELSE Returned(base_query, cols, it)

(***************************************************************************)
(* Python values of result rows: integers, datetimes, and the absence of   *)
(* a key in a row dict.                                                    *)
(***************************************************************************)
PyInt(n) == [t |-> "int", n |-> n]
PyDt(y, m, d, h) == [t |-> "dt", y |-> y, m |-> m, d |-> d, h |-> h]
Missing == [t |-> "missing"]

\* dict.get(key, default) on a row field.
RowGet(value, default) == IF value = Missing THEN default ELSE value

Pad2(n) == IF n < 10 THEN "0" \o ToString(n) ELSE ToString(n)

\* str(value)
PyToStr(v) ==
    CASE v.t = "none" -> "None"
      [] v.t = "str"  -> v.s
      [] v.t = "int"  -> ToString(v.n)
      [] v.t = "dt"   -> ToString(v.y) \o "-" \o Pad2(v.m) \o "-" \o Pad2(v.d)
                           \o " " \o Pad2(v.h) \o ":00:00"
      [] OTHER        -> ""

\* Comparison of strings as Python compares them: by code point (the
\* characters of the texts modelled, in code point order).
Ascii == " %',-./0123456789:=ABCDEFGHIJKLMNOPQRSTUVWXYZ_abcdefghijklmnopqrstuvwxyz"
CharRank(c) == CHOOSE i \in 1..Len(Ascii) : CharAt(Ascii, i) = c

RECURSIVE StrLess(_, _)
StrLess(a, b) ==
    IF b = "" THEN FALSE
    ELSE IF a = "" THEN TRUE
    ELSE IF CharAt(a, 1) = CharAt(b, 1) THEN StrLess(SubSeq(a, 2, Len(a)), SubSeq(b, 2, Len(b)))
    ELSE CharRank(CharAt(a, 1)) < CharRank(CharAt(b, 1))

DtLess(a, b) ==
    \/ a.y < b.y
    \/ a.y = b.y /\ a.m < b.m
    \/ a.y = b.y /\ a.m = b.m /\ a.d < b.d
    \/ a.y = b.y /\ a.m = b.m /\ a.d = b.d /\ a.h < b.h

\* a < b for two values of one type.
PyLess(a, b) == IF a.t = "dt" THEN DtLess(a, b) ELSE StrLess(PyToStr(a), PyToStr(b))

\* sorted(values) raises TypeError when two of the values are of types that
\* do not compare (None, str, datetime).
Sortable(values) == \A a, b \in values : a.t = b.t

RECURSIVE Sorted(_)
Sorted(values) ==
    IF values = {} THEN <<>>
    ELSE LET least == CHOOSE a \in values : \A b \in values \ {a} : PyLess(a, b)
         IN  <<least>> \o Sorted(values \ {least})

RECURSIVE SortedStrings(_)
SortedStrings(strings) ==
    IF strings = {} THEN <<>>
    ELSE LET least == CHOOSE a \in strings : \A b \in strings \ {a} : StrLess(a, b)
         IN  <<least>> \o SortedStrings(strings \ {least})

(***************************************************************************)
(* The calendar of datetime: toordinal, weekday, isocalendar.              *)
(***************************************************************************)
IsLeap(y) == (y % 4 = 0) /\ ((y % 100 # 0) \/ (y % 400 = 0))
DaysInMonth(y, m) ==
    IF m = 2 THEN (IF IsLeap(y) THEN 29 ELSE 28)
    ELSE IF m \in {4, 6, 9, 11} THEN 30 ELSE 31

RECURSIVE DaysBeforeMonth(_, _)
DaysBeforeMonth(y, m) == IF m = 1 THEN 0 ELSE DaysBeforeMonth(y, m - 1) + DaysInMonth(y, m - 1)

DaysBeforeYear(y) == (y - 1) * 365 + (y - 1) \div 4 - (y - 1) \div 100 + (y - 1) \div 400
ToOrdinal(y, m, d) == DaysBeforeYear(y) + DaysBeforeMonth(y, m) + d

\* Monday is 0.
Weekday(y, m, d) == (ToOrdinal(y, m, d) + 6) % 7

IsoWeek1Monday(y) ==
    LET firstday     == ToOrdinal(y, 1, 1)
        firstweekday == (firstday + 6) % 7
    IN  IF firstweekday > 3 THEN firstday - firstweekday + 7 ELSE firstday - firstweekday

\* dt.isocalendar()[1]
IsoWeek(y, m, d) ==
    LET today == ToOrdinal(y, m, d)
        week  == (today - IsoWeek1Monday(y)) \div 7
    IN  IF today < IsoWeek1Monday(y)
        THEN (today - IsoWeek1Monday(y - 1)) \div 7 + 1
        ELSE IF week >= 52 /\ today >= IsoWeek1Monday(y + 1) THEN 1
        ELSE week + 1

(***************************************************************************)
(* DashboardBlock.format_x_axis_value                                      *)
(***************************************************************************)
IsDigits(s) == \A i \in 1..Len(s) : InStr(CharAt(s, i), Digits)

RECURSIVE ToInt(_)
ToInt(s) ==
    IF s = "" THEN 0
    ELSE 10 * ToInt(SubSeq(s, 1, Len(s) - 1))
         + (CHOOSE n \in 0..9 : CharAt(Digits, n + 1) = CharAt(s, Len(s)))

\* "%Y-%m-%d" on s[1..10].
ValidYmd(s) ==
    /\ Len(s) >= 10
    /\ IsDigits(SubSeq(s, 1, 4)) /\ CharAt(s, 5) = "-"
    /\ IsDigits(SubSeq(s, 6, 7)) /\ CharAt(s, 8) = "-"
    /\ IsDigits(SubSeq(s, 9, 10))
    /\ ToInt(SubSeq(s, 1, 4)) >= 1
    /\ ToInt(SubSeq(s, 6, 7)) \in 1..12
    /\ ToInt(SubSeq(s, 9, 10)) \in 1..DaysInMonth(ToInt(SubSeq(s, 1, 4)), ToInt(SubSeq(s, 6, 7)))

\* " %H:%M:%S" on s[11..19].
ValidHms(s) ==
    /\ Len(s) = 19
    /\ CharAt(s, 11) = " "
    /\ IsDigits(SubSeq(s, 12, 13)) /\ CharAt(s, 14) = ":"
    /\ IsDigits(SubSeq(s, 15, 16)) /\ CharAt(s, 17) = ":"
    /\ IsDigits(SubSeq(s, 18, 19))
    /\ ToInt(SubSeq(s, 12, 13)) < 24 /\ ToInt(SubSeq(s, 15, 16)) < 60
    /\ ToInt(SubSeq(s, 18, 19)) < 62

\* The strptime loop over "%Y-%m-%d %H:%M:%S" and "%Y-%m-%d", on texts in
\* the zero-padded form (none of the texts modelled has fractional seconds,
\* the third format).
Parseable(s) == ValidYmd(s) /\ (Len(s) = 10 \/ ValidHms(s))
ParseDt(s) ==
    PyDt(ToInt(SubSeq(s, 1, 4)), ToInt(SubSeq(s, 6, 7)), ToInt(SubSeq(s, 9, 10)),
         IF Len(s) = 10 THEN 0 ELSE ToInt(SubSeq(s, 12, 13)))

\* The label of a datetime for a granularity.
FormatDt(dt, value, x_axis_granularity) ==
    LET granularity == Lower(x_axis_granularity)
    IN  CASE granularity = "hour" ->
                Pad2(dt.d) \o "/" \o Pad2(dt.m) \o "/" \o ToString(dt.y) \o " " \o Pad2(dt.h) \o ":00"
          [] granularity = "day" -> Pad2(dt.d) \o "/" \o Pad2(dt.m) \o "/" \o ToString(dt.y)
          [] granularity = "week" ->
                "Semana " \o ToString(IsoWeek(dt.y, dt.m, dt.d)) \o ", " \o ToString(dt.y)
          [] granularity = "month" -> Pad2(dt.m) \o "/" \o ToString(dt.y)
          [] granularity = "quarter" -> "Q" \o ToString((dt.m - 1) \div 3 + 1) \o "/" \o ToString(dt.y)
          [] granularity = "year" -> ToString(dt.y)
          [] OTHER -> PyToStr(value)

format_x_axis_value(x_axis_granularity, value) ==
    IF x_axis_granularity = NoField \/ ~Truthy(value) THEN PyToStr(value)
    ELSE IF value.t = "str"
    THEN IF Parseable(value.s) THEN FormatDt(ParseDt(value.s), value, x_axis_granularity)
         ELSE PyToStr(value)
    ELSE IF value.t = "dt" THEN FormatDt(value, value, x_axis_granularity)
    ELSE PyToStr(value)

(***************************************************************************)
(* DashboardBlock.normalize_query_results                                  *)
(***************************************************************************)
DictHas(d, k) == k \in DictKeys(d)
DictGet(d, k) == d[CHOOSE i \in 1..Len(d) : d[i][1] = k][2]

\* raw_x_values: the distinct metric_date values of the rows.
RawXSet(rows) == {RowGet(rows[r].metric_date, PyStr("")) : r \in 1..Len(rows)}

\* x_value_map: str(raw) -> formatted (a later raw value of the same str
\* replaces an earlier one).
XValueMap(raw_x_values, x_values, key) ==
    LET hits == {i \in 1..Len(raw_x_values) : PyToStr(raw_x_values[i]) = key}
    IN  IF hits = {} THEN key
        ELSE x_values[CHOOSE i \in hits : \A j \in hits : j <= i]

\* agg_config.get("label", agg_config.get("field")), agg_config.get("axis", "y1")
AggLabel(agg_config) == PyToStr(RowGet(agg_config.label, PyStr(agg_config.field)))
AggAxis(agg_config) == PyToStr(RowGet(agg_config.axis, PyStr("y1")))

\* The label under which a metric of a row is stored.
SerieLabel(aggs, has_series, series_key, label) ==
    IF has_series
    THEN IF Len(aggs) = 1 THEN series_key ELSE series_key \o " - " \o label
    ELSE label

\* series_data[series_key][serie_label]["values_dict"][x_val] = value, the
\* serie being created on its first use.
StoreValue(series_data, series_key, serie_label, axis, x_val, value) ==
    LET series == DictGet(series_data, series_key)
        info   == IF DictHas(series, serie_label) THEN DictGet(series, serie_label)
                  ELSE [axis |-> axis, label |-> serie_label, values_dict |-> <<>>]
    IN  DictSet(series_data, series_key,
            DictSet(series, serie_label,
                [info EXCEPT !.values_dict = DictSet(@, x_val, value)]))

\* The loop over y_axis_aggregations for one row, from metric idx on.
RECURSIVE StoreMetrics(_, _, _, _, _, _, _)
StoreMetrics(series_data, aggs, idx, has_series, series_key, x_val, row) ==
    IF idx > Len(aggs) THEN series_data
    ELSE StoreMetrics(
            StoreValue(series_data, series_key,
                       SerieLabel(aggs, has_series, series_key, AggLabel(aggs[idx])),
                       AggAxis(aggs[idx]), x_val,
                       IF idx <= Len(row.metric_values)
                       THEN RowGet(row.metric_values[idx], PyNone) ELSE PyNone),
            aggs, idx + 1, has_series, series_key, x_val, row)

\* The loop over the rows, from row r on.
RECURSIVE StoreRows(_, _, _, _, _, _, _)
StoreRows(series_data, aggs, rows, r, has_series, raw_x_values, x_values) ==
    IF r > Len(rows) THEN series_data
    ELSE LET row        == rows[r]
             x_val_raw  == PyToStr(RowGet(row.metric_date, PyStr("")))
             x_val      == XValueMap(raw_x_values, x_values, x_val_raw)
             series_key == IF has_series THEN PyToStr(RowGet(row.series_key, PyStr("")))
                           ELSE "default"
             started    == IF DictHas(series_data, series_key) THEN series_data
                           ELSE DictSet(series_data, series_key, <<>>)
         IN  StoreRows(StoreMetrics(started, aggs, 1, has_series, series_key, x_val, row),
                       aggs, rows, r + 1, has_series, raw_x_values, x_values)

\* A variant that lists only the values that were stored.
SerieValues_StoredOnly(values_dict, x_values) ==
    [i \in 1..Len(values_dict) |-> values_dict[i][2]]

\* values_dict.get(x_val) for each label of x.
SerieValues(values_dict, x_values) ==
    [i \in 1..Len(x_values) |->
        IF DictHas(values_dict, x_values[i]) THEN DictGet(values_dict, x_values[i]) ELSE PyNone]

\* The series of one series key, in the order the labels were created.
SeriesOf(series, x_values) ==
    [k \in 1..Len(series) |->
        [axis |-> series[k][2].axis, label |-> series[k][2].label,
         values |-> SerieValues(series[k][2].values_dict, x_values)]]

RECURSIVE SeriesList(_, _, _)
SeriesList(series_data, keys, x_values) ==
    IF keys = <<>> THEN <<>>
    ELSE SeriesOf(DictGet(series_data, Head(keys)), x_values)
         \o SeriesList(series_data, Tail(keys), x_values)

NormalizedOf(x, series) == [raised |-> FALSE, x |-> x, series |-> series]
TypeError == [raised |-> TRUE, x |-> <<>>, series |-> <<>>]

normalize_query_results(blk, rows) ==
    IF rows = <<>> THEN NormalizedOf(<<>>, <<>>)
    ELSE IF ~Sortable(RawXSet(rows)) THEN TypeError
    ELSE LET raw_x_values == Sorted(RawXSet(rows))
             x_values     == [i \in 1..Len(raw_x_values) |->
                                 format_x_axis_value(blk.x_axis_granularity, raw_x_values[i])]
             has_series   == rows[1].series_key # Missing
             series_data  == StoreRows(<<>>, blk.y_axis_aggregations, rows, 1, has_series,
                                       raw_x_values, x_values)
         IN  NormalizedOf(x_values,
                 SeriesList(series_data, SortedStrings(DictKeys(series_data)), x_values))

(***************************************************************************)
(* DataSource: introspection, the semantic contract, clean and save.       *)
(***************************************************************************)
\* What the external database answers to the probe of a base query:
\* cursor.description with each type_code looked up in pg_type.
ClientsQuery == "select id, name from clients"

\* The base queries given to a DataSource, and what _validate_sql_security
\* answers to each.
BaseQueries ==
    {"", "SELECT * FROM sales", ClientsQuery, "drop table sales", "select 1; delete from sales"}
SqlSecurity == [sql \in BaseQueries |-> validate_sql_security(sql)]
Description(sql) ==
    IF sql = "SELECT * FROM sales"
    THEN <<<<"sold_at", "timestamp">>, <<"amount", "numeric">>, <<"region", "varchar">>>>
    ELSE IF sql = ClientsQuery THEN <<<<"id", "int4">>, <<"name", "varchar">>>>
    ELSE <<<<"?column?", "int4">>>>

\* How a probe ends: with a description, or with one of the exceptions the
\* methods catch.
\* What can happen in the try block of a method that runs a statement on
\* the external database: "ok", or one of the failures below.
ProbeOutcomes ==
    {"ok", "OperationalError", "ProgrammingError", "timeout", "DataError", "Exception"}

\* The exception psycopg2 raises for each failure: its class and str(e).
\*   "OperationalError": the server cannot be reached;
\*   "ProgrammingError": the statement does not parse;
\*   "timeout": the server cancels the statement when statement_timeout
\*       expires (SQLSTATE 57014), raised as QueryCanceled, a subclass of
\*       OperationalError;
\*   "DataError": a value of the statement cannot be converted (SQLSTATE
\*       22P02, here for the literal 'timeout'::int);
\*   "Exception": any other failure.
Exc(class, text) == [class |-> class, text |-> text]
ExceptionOf(outcome) ==
    CASE outcome = "OperationalError" -> Exc("OperationalError", "could not connect to server")
      [] outcome = "ProgrammingError" -> Exc("ProgrammingError", "syntax error at or near FROM")
      [] outcome = "timeout" ->
            Exc("QueryCanceled", "canceling statement due to statement timeout")
      [] outcome = "DataError" ->
            Exc("DataError", "invalid input syntax for type integer: timeout")
      [] OTHER -> Exc("InternalError", "out of memory")

\* except psycopg2.OperationalError / except psycopg2.ProgrammingError:
\* isinstance of the raised exception.
IsOperationalError(e) == e.class \in {"OperationalError", "QueryCanceled"}
IsProgrammingError(e) == e.class = "ProgrammingError"

\* "timeout" in error_str.lower() or "canceled" in error_str.lower()
MentionsTimeout(error_str) ==
    SearchSubstring(Lower(error_str), "timeout") \/ SearchSubstring(Lower(error_str), "canceled")

\* The except clauses, tried in order: the first one matching the exception
\* handles it; the generic clause tells a timeout by the exception's text.
ExceptClause(e) ==
    CASE IsOperationalError(e) -> "OperationalError"
      [] IsProgrammingError(e) -> "ProgrammingError"
      [] MentionsTimeout(e.text) -> "Exception (timeout)"
      [] OTHER -> "Exception"

\* ExceptClause, tabulated for the exceptions of the model.
Handler ==
    [e \in {ExceptionOf(outcome) : outcome \in ProbeOutcomes \ {"ok"}} |-> ExceptClause(e)]

\* The message the except clauses of an introspection method store in
\* last_validation_error.
ErrorMessage(outcome, unexpected) ==
    LET e == ExceptionOf(outcome)
    IN  CASE Handler[e] = "OperationalError" -> "Erro de conexao: " \o e.text
          [] Handler[e] = "ProgrammingError" -> "Erro de sintaxe SQL: " \o e.text
          [] Handler[e] = "Exception (timeout)" -> "Query cancelada (timeout de 5s excedido)"
          [] OTHER -> unexpected \o ": " \o e.text

\* (success, ...) and the instance as the method leaves it; probed: a
\* connection to the external database was opened.
Probed(self, success, probed) == [self |-> self, success |-> success, probed |-> probed]

Names(columns_metadata) == [i \in 1..Len(columns_metadata) |-> columns_metadata[i].name]

extract_columns_metadata(self, outcome, at) ==
    IF self.connection \in {"none", "inactive"} THEN Probed(self, FALSE, FALSE)
    ELSE IF outcome = "ok"
    THEN LET description == Description(self.sql)
             columns_metadata == [i \in 1..Len(description) |->
                                     ColumnMetadataOf(description[i][1], description[i][2])]
         IN  Probed([self EXCEPT !.columns_metadata = columns_metadata,
                                 !.detected_columns = Names(columns_metadata),
                                 !.last_validation_at = at,
                                 !.last_validation_error = ""], TRUE, TRUE)
    ELSE Probed([self EXCEPT !.last_validation_error =
                                 ErrorMessage(outcome, "Erro inesperado")], FALSE, TRUE)

validate_and_extract_columns(self, outcome, at) ==
    IF self.connection \in {"none", "inactive"} THEN Probed(self, FALSE, FALSE)
    ELSE IF outcome = "ok"
    THEN LET description == Description(self.sql)
         IN  Probed([self EXCEPT !.detected_columns =
                                      [i \in 1..Len(description) |-> description[i][1]],
                                 !.last_validation_at = at,
                                 !.last_validation_error = ""], TRUE, TRUE)
    ELSE Probed([self EXCEPT !.last_validation_error =
                                 ErrorMessage(outcome, "Erro inesperado ao validar query")], FALSE, TRUE)

\* The errors of validate_semantic_contract, in the order they are appended.
ContractErrors(self) ==
    LET detected == {self.detected_columns[i] : i \in 1..Len(self.detected_columns)}
        mapped == SelectSeq(<<self.metric_date_column, self.metric_value_column,
                              self.series_key_column, self.unit_id_column>>,
                            LAMBDA col : col # NoField)
        Err(cond, e) == IF cond THEN <<e>> ELSE <<>>
    IN  IF self.detected_columns = <<>> THEN <<"no_columns">>
        ELSE Err(self.metric_date_column = NoField, "date_required")
             \o Err(self.metric_date_column # NoField /\ self.metric_date_column \notin detected,
                    "date_unknown")
             \o Err(self.metric_value_column = NoField, "value_required")
             \o Err(self.metric_value_column # NoField /\ self.metric_value_column \notin detected,
                    "value_unknown")
             \o Err(self.series_key_column # NoField /\ self.series_key_column \notin detected,
                    "series_unknown")
             \o Err(self.unit_id_column # NoField /\ self.unit_id_column \notin detected,
                    "unit_unknown")
             \o Err(Len(mapped) # Cardinality({mapped[i] : i \in 1..Len(mapped)}), "duplicate")

\* (is_valid, errors) and the instance: contract_validated is set unless
\* there are no detected columns.
validate_semantic_contract(self) ==
    LET errors == ContractErrors(self)
    IN  [is_valid |-> errors = <<>>, errors |-> errors,
         self |-> IF self.detected_columns = <<>> THEN self
                  ELSE [self EXCEPT !.contract_validated = (errors = <<>>)]]

\* A variant of clean that checks the contract only.
clean_ContractOnly(self) ==
    LET has_contract_fields ==
            \E col \in {self.metric_date_column, self.metric_value_column,
                        self.series_key_column, self.unit_id_column} : col # NoField
        contract == validate_semantic_contract(self)
    IN  IF has_contract_fields
        THEN [raised |-> ~contract.is_valid, self |-> contract.self]
        ELSE [raised |-> FALSE, self |-> self]

\* clean raises ValidationError or returns; the instance as it leaves it.
clean(self) ==
    LET has_contract_fields ==
            \E col \in {self.metric_date_column, self.metric_value_column,
                        self.series_key_column, self.unit_id_column} : col # NoField
        contract == validate_semantic_contract(self)
    IN  IF self.sql # "" /\ ~SqlSecurity[self.sql].ok
        THEN [raised |-> TRUE, self |-> self]
        ELSE IF has_contract_fields
        THEN [raised |-> ~contract.is_valid, self |-> contract.self]
        ELSE [raised |-> FALSE, self |-> self]

\* DataSource.save on an instance, given the stored record and how the
\* probes it sends end.  log lists, in order, what the call did: "validate"
\* (clean), "probe" (a connection opened to the external database),
\* "persist" (super().save).
\* attempt tells how the introspection the call made ended, the fallback
\* being the later attempt: "none" when it made none.
save(self, stored, first, second, at) ==
    LET is_new      == self.pk = NoField
        sql_changed == ~is_new /\ stored # Missing /\ stored.sql # self.sql
        cleaned     == clean(self)
        introspects == (is_new \/ sql_changed) /\ cleaned.self.sql # ""
                       /\ cleaned.self.connection # "none"
        extracted   == extract_columns_metadata(cleaned.self, first, at)
        fallback    == validate_and_extract_columns(extracted.self, second, at)
        final       == IF ~introspects THEN cleaned.self
                       ELSE IF extracted.success THEN extracted.self ELSE fallback.self
        probes      == IF ~introspects THEN <<>>
                       ELSE (IF extracted.probed THEN <<"probe">> ELSE <<>>)
                            \o (IF ~extracted.success /\ fallback.probed
                                THEN <<"probe">> ELSE <<>>)
        attempt     == IF ~introspects THEN "none"
                       ELSE IF extracted.success \/ fallback.success THEN "success"
                       ELSE "failure"
    IN  IF cleaned.raised
        THEN [raised |-> TRUE, self |-> cleaned.self, stored |-> stored,
              sql_changed |-> sql_changed, log |-> <<"validate">>, attempt |-> "none"]
        ELSE [raised |-> FALSE, self |-> final, stored |-> final,
              sql_changed |-> sql_changed, log |-> <<"validate">> \o probes \o <<"persist">>,
              attempt |-> attempt]

(***************************************************************************)
(* DashboardBlock.get_data: compile, execute, normalize.                   *)
(***************************************************************************)
\* ColumnMetadata.from_dict on a dict that to_dict wrote.
from_dict(data) ==
    [name |-> data.name, database_type |-> data.database_type,
     semantic_type |-> data.semantic_type, nullable |-> data.nullable,
     allowed_aggregations |-> data.allowed_aggregations,
     allowed_granularities |-> data.allowed_granularities]

\* The limit DashboardBlock.get_analytical_query_params passes.
BlockLimit == 1000

\* The arguments of execute_analytical_query for a block and a request.
get_analytical_query_params(blk, filters) ==
    [x_axis_field |-> blk.x_axis_field,
     x_axis_granularity |-> blk.x_axis_granularity,
     y_axis_metrics |->
        [i \in 1..Len(blk.y_axis_aggregations) |->
            LET agg_config == blk.y_axis_aggregations[i]
            IN  [field |-> agg_config.field,
                 aggregation |-> PyToStr(RowGet(agg_config.aggregation, PyStr("sum"))),
                 label |-> AggLabel(agg_config)]],
     series_field |-> blk.series_field,
     filters |-> [date_start |-> PyNone, date_end |-> PyNone, dimensions |-> <<>>,
                  dynamic_filters |-> filters, custom |-> "",
                  where_clause |-> blk.filter_sql, block_filter |-> ""],
     order_by |-> "metric_date",
     limit |-> BlockLimit]

\* How the execution of the compiled query ends.
ExecOutcomes == ProbeOutcomes

Failure(message) == [success |-> FALSE, data |-> PyStr(message)]

\* The except clauses of QueryExecutor.execute_query, tried in order.
ExecuteFailure(e, timeout) ==
    CASE Handler[e] = "OperationalError" -> Failure("Erro de conexao: " \o e.text)
      [] Handler[e] = "ProgrammingError" -> Failure("Erro na query: " \o e.text)
      [] Handler[e] = "Exception (timeout)" ->
            Failure("Query cancelada (timeout de " \o ToString(timeout) \o "s excedido)")
      [] OTHER -> Failure("Erro ao executar query: " \o e.text)

\* QueryExecutor.execute_query -> (success, data_or_error)
execute_query(connection, outcome, rows) ==
    CASE connection = "inactive" -> Failure("Conexao esta inativa")
      [] outcome = "ok"          -> [success |-> TRUE, data |-> rows]
      [] OTHER                   -> ExecuteFailure(ExceptionOf(outcome), 30)

\* The variant whose get_query_builder introspects a DataSource that has no
\* metadata instead of raising.
execute_analytical_query_OnDemand(datasource, it, outcome, rows) ==
    LET introspected == IF datasource.columns_metadata = <<>>
                        THEN extract_columns_metadata(datasource, outcome, 0).self
                        ELSE datasource
    IN  IF introspected.columns_metadata = <<>>
        THEN Failure("Erro ao gerar/executar query: Metadados de colunas nao disponiveis")
        ELSE LET columns_metadata == [i \in 1..Len(introspected.columns_metadata) |->
                                         from_dict(introspected.columns_metadata[i])]
                 compiled == build_analytical_query(Strip(introspected.sql), columns_metadata, it)
             IN  IF compiled.raised \/ introspected.connection = "none"
                 THEN Failure("Erro ao gerar/executar query")
                 ELSE execute_query(introspected.connection, outcome, rows)

\* DataSource.execute_analytical_query: every exception of the compilation
\* and of the executor's construction and call is turned into (False, message).
execute_analytical_query(datasource, it, outcome, rows) ==
    IF datasource.columns_metadata = <<>>
    THEN Failure("Erro ao gerar/executar query: Metadados de colunas nao disponiveis")
    ELSE LET columns_metadata == [i \in 1..Len(datasource.columns_metadata) |->
                                     from_dict(datasource.columns_metadata[i])]
             compiled == build_analytical_query(Strip(datasource.sql), columns_metadata, it)
         IN  IF compiled.raised \/ datasource.connection = "none"
             THEN Failure("Erro ao gerar/executar query")
             ELSE execute_query(datasource.connection, outcome, rows)

\* DashboardBlock.execute_query
block_execute_query(blk, datasource, filters, outcome, rows) ==
    IF blk.y_axis_aggregations = <<>>
    THEN Failure("Configure pelo menos uma agregacao")
    ELSE IF datasource.columns_metadata = <<>>
    THEN Failure("DataSource nao possui metadados")
    ELSE execute_analytical_query(datasource, get_analytical_query_params(blk, filters),
                                  outcome, rows)

\* A variant of get_data that normalizes the rows it has, whatever happened.
get_data_BestEffort(blk, datasource, filters, outcome, rows) ==
    LET normalized_data == normalize_query_results(blk, rows)
    IN  [raised |-> normalized_data.raised, success |-> TRUE,
         data |-> [x |-> normalized_data.x, series |-> normalized_data.series]]

\* DashboardBlock.get_data -> (success, data), or the TypeError that
\* normalize_query_results raises.
get_data(blk, datasource, filters, outcome, rows) ==
    LET executed        == block_execute_query(blk, datasource, filters, outcome, rows)
        normalized_data == normalize_query_results(blk, executed.data)
    IN  IF ~executed.success
        THEN [raised |-> FALSE, success |-> FALSE, data |-> executed.data]
        ELSE IF normalized_data.raised
        THEN [raised |-> TRUE, success |-> FALSE, data |-> PyNone]
        ELSE [raised |-> FALSE, success |-> TRUE,
              data |-> [x |-> normalized_data.x, series |-> normalized_data.series]]

\* The keyword parameters of DashboardBlock.get_data(self, applied_filters=None).
get_data_parameters == {"applied_filters"}

\* DashboardInstanceViewSet._process_dashboard_block: the dict returned for
\* one block (its data, error and success keys).  The call of get_data names
\* the keywords applied_filters and instance_filter_sql; a keyword the method
\* does not declare raises TypeError before the method's body runs, and the
\* handler of Exception answers for it.
process_dashboard_block(blk, datasource, filters, outcome, rows) ==
    IF ~({"applied_filters", "instance_filter_sql"} \subseteq get_data_parameters)
    THEN [data |-> PyNone, success |-> FALSE,
          error |-> PyStr("Erro ao processar bloco: get_data() got an unexpected keyword argument 'instance_filter_sql'")]
    ELSE LET call == get_data(blk, datasource, filters, outcome, rows)
         IN  IF call.raised
             THEN [data |-> PyNone, success |-> FALSE,
                   error |-> PyStr("Erro ao processar bloco: TypeError")]
             ELSE IF ~call.success
             THEN [data |-> PyNone, success |-> FALSE, error |-> call.data]
             ELSE [data |-> call.data, success |-> TRUE]

\* The tuple get_data returns, as the JSON renderer writes it: a list.
PyTuple(call) == [t |-> "tuple", success |-> call.success, data |-> call.data]

\* DashboardBlockViewSet.data: the status and the body of the response.
\* get_data is called without filters and what it returns is put under the
\* data key as it is.
block_data(blk, datasource, outcome, rows) ==
    IF blk.x_axis_field = NoField
    THEN [status |-> 400, success |-> FALSE,
          error |-> PyStr("Bloco nao esta configurado (x_axis_field nao definido).")]
    ELSE IF blk.y_axis_aggregations = <<>>
    THEN [status |-> 400, success |-> FALSE,
          error |-> PyStr("Bloco nao possui metricas configuradas (y_axis_aggregations).")]
    ELSE LET normalized_data == get_data(blk, datasource, <<>>, outcome, rows)
         IN  IF normalized_data.raised
             THEN [status |-> 400, success |-> FALSE, error |-> PyStr("TypeError")]
             ELSE [status |-> 200, success |-> TRUE, data |-> PyTuple(normalized_data)]

\* No call made: the arguments of a call that was never made.
NoIntent == [pending |-> TRUE]

SqlIdle == query = "" /\ sql_verdict = Pending
BuildIdle == builder = Pending /\ intent = NoIntent /\ built = Pending

NormIdle == block = Pending /\ query_results = <<>> /\ normalized = Pending
SaveIdle == ds = Pending /\ db = Missing /\ now = 0 /\ last_save = Pending
CallIdle == builders = <<>> /\ calls = <<>>
ExecIdle == execution = Pending /\ probe = Pending
InferIdle == typname = "" /\ metadata = Pending
ViewIdle == response = Pending
FilterIdle == template = Pending /\ instance_filter_sql = "" /\ filter_queries = Pending
DataIdle == applied_filters = <<>> /\ got = Pending

SqlInit ==
    /\ query \in SqlTexts
    /\ sql_verdict = Pending
    /\ BuildIdle /\ NormIdle /\ SaveIdle /\ DataIdle /\ CallIdle /\ ExecIdle /\ InferIdle /\ ViewIdle /\ FilterIdle

\* Both validators are applied to the text.
ValidateSql ==
    /\ sql_verdict = Pending
    /\ sql_verdict' = [builder |-> validate_safe_query(query),
                       datasource |-> validate_sql_security(query)]
    /\ UNCHANGED <<query, buildVars, normVars, saveVars, dataVars, callVars, execVars, inferVars, viewVars, filterVars>>

SqlNext == ValidateSql

SpecSql == SqlInit /\ [][SqlNext]_vars

(***************************************************************************)
(* The builder under test: the dataset of the specification's scenarios.   *)
(***************************************************************************)
DatasetQuery == "SELECT * FROM sales"
DatasetColumns ==
    <<ColumnMetadataOf("sold_at", "timestamp"),
      ColumnMetadataOf("amount", "numeric"),
      ColumnMetadataOf("region", "varchar")>>

Metric(field, aggregation, label) ==
    [field |-> field, aggregation |-> aggregation, label |-> label]

MetricChoices ==
    {Metric("amount", "sum", "Total"), Metric("amount", "median", "Median"),
     Metric("region", "count_distinct", "Regions"), Metric("region", "sum", "Total"),
     Metric("nope", "sum", "Ghost")}

MaxMetrics == 2
MetricLists == UNION {[1..n -> MetricChoices] : n \in 0..MaxMetrics}

NoFilters ==
    [date_start |-> PyNone, date_end |-> PyNone, dimensions |-> <<>>,
     dynamic_filters |-> <<>>, custom |-> "", where_clause |-> "", block_filter |-> ""]

\* Intents that vary what the validation phase and the clause layout read.
ShapeIntents ==
    [x_axis_field : {NoField, "sold_at", "region", "nope"},
     x_axis_granularity : {NoField, "month", "decade"},
     y_axis_metrics : MetricLists,
     series_field : {NoField, "region", "nope"},
     filters : {NoFilters},
     order_by : {NoField, "metric_date"},
     limit : {0, BlockLimit}]

\* The conditions of one dynamic filter: at most MaxConditions operators,
\* each once (they are the keys of a dict).
ConditionChoices ==
    {<<"gte", PyStr("2024-02-01")>>, <<"lte", PyStr("2024-11-30")>>,
     <<"gt", PyStr("15")>>, <<"lt", PyStr("95")>>, <<"eq", PyStr("EAST")>>,
     <<"in", PyList(<<"NORTH", "SOUTH">>)>>, <<"in", PyList(<<>>)>>,
     <<"in", PyStr("WEST")>>, <<"like", PyStr("%CENTRO%")>>}

MaxConditions == 2
DistinctKeys(d) == \A i, j \in 1..Len(d) : d[i][1] = d[j][1] => i = j
ConditionLists ==
    {c \in UNION {[1..n -> ConditionChoices] : n \in 0..MaxConditions} : DistinctKeys(c)}

DynamicFilterChoices ==
    {<<>>, <<<<"nope", <<<<"gte", PyStr("77")>>>>>>>>}
    \cup {<<<<"amount", c>>>> : c \in ConditionLists}
    \cup {<<<<"nope", <<<<"eq", PyStr("GHOST")>>>>>>, <<"amount", c>>>> : c \in ConditionLists}

DimensionChoices ==
    {<<>>, <<<<"region", PyList(<<"LESTE">>)>>>>, <<<<"nope", PyList(<<"OESTE">>)>>>>,
     <<<<"nope", PyList(<<"OESTE">>)>>, <<"region", PyList(<<"LESTE">>)>>>>}

\* Filter sets that vary the values: date bounds, dimension and dynamic filters.
ValueFilterSets ==
    [date_start : {PyNone, PyStr("2024-01-01")},
     date_end : {PyNone, PyStr("2024-12-31")},
     dimensions : DimensionChoices,
     dynamic_filters : DynamicFilterChoices,
     custom : {""}, where_clause : {""}, block_filter : {""}]

\* Filter sets that vary the raw trusted fragments.
RawFilterSets ==
    [date_start : {PyNone, PyStr("2024-01-01")},
     date_end : {PyNone},
     dimensions : {<<>>, <<<<"region", PyList(<<"LESTE">>)>>>>},
     dynamic_filters : {<<>>, <<<<"amount", <<<<"gte", PyStr("15")>>>>>>>>,
                        <<<<"amount", <<<<"in", PyList(<<"NORTH", "SOUTH">>)>>>>>>>>},
     custom : {"", "status = 'active'"},
     where_clause : {"", "paid"},
     block_filter : {"", "kind = 'flash'"}]

\* Intents that vary the filter set, on a valid shape.
FilterIntents ==
    [x_axis_field : {NoField, "sold_at"},
     x_axis_granularity : {NoField},
     y_axis_metrics : {<<Metric("amount", "sum", "Total")>>},
     series_field : {NoField},
     filters : ValueFilterSets \cup RawFilterSets,
     order_by : {"metric_date"},
     limit : {BlockLimit}]

Intents == ShapeIntents \cup FilterIntents

BuildInit ==
    /\ builder = [base_query |-> DatasetQuery, columns_metadata |-> DatasetColumns]
    /\ intent \in Intents
    /\ built = Pending
    /\ SqlIdle /\ NormIdle /\ SaveIdle /\ DataIdle /\ CallIdle /\ ExecIdle /\ InferIdle /\ ViewIdle /\ FilterIdle

\* A call of build_analytical_query on the builder.
Build ==
    /\ built = Pending
    /\ built' = build_analytical_query(builder.base_query, builder.columns_metadata, intent)
    /\ UNCHANGED <<builder, intent, sqlVars, normVars, saveVars, dataVars, callVars, execVars, inferVars, viewVars, filterVars>>

BuildNext == Build

SpecBuild == BuildInit /\ [][BuildNext]_vars

(***************************************************************************)
(* The rows and blocks normalize_query_results is applied to.              *)
(***************************************************************************)
MaxRows == 2
MaxBlockMetrics == 2

Aggregation(field, aggregation, label, axis) ==
    [field |-> field, aggregation |-> aggregation, label |-> label, axis |-> axis]
Row(metric_date, series_key, metric_values) ==
    [metric_date |-> metric_date, series_key |-> series_key, metric_values |-> metric_values]

\* The value of DATE_TRUNC(granularity, column): the start of the bucket.
IsBucket(granularity, dt) ==
    CASE granularity = "hour"    -> TRUE
      [] granularity = "day"     -> dt.h = 0
      [] granularity = "week"    -> dt.h = 0 /\ Weekday(dt.y, dt.m, dt.d) = 0
      [] granularity = "month"   -> dt.h = 0 /\ dt.d = 1
      [] granularity = "quarter" -> dt.h = 0 /\ dt.d = 1 /\ dt.m \in {1, 4, 7, 10}
      [] granularity = "year"    -> dt.h = 0 /\ dt.d = 1 /\ dt.m = 1
      [] OTHER                   -> TRUE

Datetimes ==
    {PyDt(2024, 1, 1, 0), PyDt(2024, 1, 1, 5), PyDt(2024, 12, 30, 0), PyDt(2025, 1, 1, 0)}
Granularities == {NoField, "hour", "day", "week", "month", "quarter", "year", "Week"}
SeriesKeys == {Missing, PyStr("A"), PyStr("B")}

\* metric_date of a temporal block: a bucket of the granularity, the same
\* as text (a driver that returns text), NULL, or no such key.
TemporalDates(granularity) ==
    LET buckets == {dt \in Datetimes : IsBucket(Lower(granularity), dt)}
    IN  buckets \cup {PyStr("2024-01-01"), PyNone, Missing}

\* Row r of a result: metric_value_i is 10 * r + i.
MetricValues(r, n) == [i \in 1..n |-> PyInt(10 * r + i)]

RowLists(dates, keys, n) ==
    UNION {
        {[r \in 1..len |-> Row(d[r], k[r], MetricValues(r, n))] :
            d \in [1..len -> dates], k \in [1..len -> keys]} :
        len \in 0..MaxRows}

TemporalBlocks ==
    {[x_axis_granularity |-> g,
      y_axis_aggregations |-> <<Aggregation("amount", PyStr("sum"), PyStr("Total"), PyStr("y1"))>>] :
        g \in Granularities}

AggregationChoices ==
    {Aggregation("amount", PyStr("sum"), PyStr("Total"), PyStr("y1")),
     Aggregation("quantity", PyStr("sum"), PyStr("Total"), PyStr("y2")),
     Aggregation("amount", PyStr("avg"), PyStr("Media"), Missing),
     Aggregation("quantity", Missing, Missing, PyStr("y1"))}
AggregationLists ==
    UNION {[1..len -> AggregationChoices] : len \in 0..MaxBlockMetrics}
CategoricalBlocks ==
    {[x_axis_granularity |-> NoField, y_axis_aggregations |-> aggs] : aggs \in AggregationLists}
CategoricalDates == {PyStr("N"), PyStr("S")}
CategoricalKeys == SeriesKeys \cup {PyNone}

\* A temporal block with rows of its granularity's buckets, or a categorical
\* block with as many metric values per row as it has metrics.
NormalizeInit ==
    /\ \/ /\ block \in TemporalBlocks
          /\ query_results \in RowLists(TemporalDates(block.x_axis_granularity), SeriesKeys, 1)
       \/ /\ block \in CategoricalBlocks
          /\ query_results \in RowLists(CategoricalDates, CategoricalKeys,
                                        Len(block.y_axis_aggregations))
    /\ normalized = Pending
    /\ SqlIdle /\ BuildIdle /\ SaveIdle /\ DataIdle /\ CallIdle /\ ExecIdle /\ InferIdle /\ ViewIdle /\ FilterIdle

\* block.normalize_query_results(query_results)
Normalize ==
    /\ normalized = Pending
    /\ normalized' = normalize_query_results(block, query_results)
    /\ UNCHANGED <<block, query_results, sqlVars, buildVars, saveVars, dataVars, callVars, execVars, inferVars, viewVars, filterVars>>

NormalizeNext == Normalize

SpecNormalize == NormalizeInit /\ [][NormalizeNext]_vars

(***************************************************************************)
(* The DataSource instances save is applied to.                            *)
(***************************************************************************)
MaxSaves == 2

\* A new instance: the field defaults, and the primary key that
\* default=uuid.uuid4 gives it on construction.
NewDataSource ==
    [pk |-> "uuid-1", sql |-> "", connection |-> "active",
     columns_metadata |-> <<>>, detected_columns |-> <<>>,
     last_validation_at |-> 0, last_validation_error |-> "",
     metric_date_column |-> NoField, metric_value_column |-> NoField,
     series_key_column |-> NoField, unit_id_column |-> NoField,
     contract_validated |-> FALSE]

\* A record stored earlier with the sales query, introspected.
StoredSales ==
    [NewDataSource EXCEPT !.sql = "SELECT * FROM sales",
                          !.columns_metadata = DatasetColumns,
                          !.detected_columns = Names(DatasetColumns)]

Connections == {"none", "inactive", "active"}
Contracts ==
    {<<NoField, NoField, NoField, NoField>>, <<"sold_at", "amount", NoField, NoField>>,
     <<"id", NoField, "name", "name">>}

SaveInit ==
    /\ db \in {Missing, StoredSales}
    /\ ds = IF db = Missing THEN NewDataSource ELSE db
    /\ now = 0
    /\ last_save = Pending
    /\ SqlIdle /\ BuildIdle /\ NormIdle /\ DataIdle /\ CallIdle /\ ExecIdle /\ InferIdle /\ ViewIdle /\ FilterIdle

\* The fields of the instance are assigned (a form, the shell).
SetSql ==
    /\ now < MaxSaves
    /\ \E sql \in BaseQueries : ds' = [ds EXCEPT !.sql = sql]
    /\ UNCHANGED <<db, now, last_save, sqlVars, buildVars, normVars, dataVars, callVars, execVars, inferVars, viewVars, filterVars>>

SetConnection ==
    /\ now < MaxSaves
    /\ \E connection \in Connections : ds' = [ds EXCEPT !.connection = connection]
    /\ UNCHANGED <<db, now, last_save, sqlVars, buildVars, normVars, dataVars, callVars, execVars, inferVars, viewVars, filterVars>>

SetContract ==
    /\ now < MaxSaves
    /\ \E c \in Contracts :
          ds' = [ds EXCEPT !.metric_date_column = c[1], !.metric_value_column = c[2],
                           !.series_key_column = c[3], !.unit_id_column = c[4]]
    /\ UNCHANGED <<db, now, last_save, sqlVars, buildVars, normVars, dataVars, callVars, execVars, inferVars, viewVars, filterVars>>

\* ds.save().  The external database answers only a save that probes it,
\* and the second probe (validate_and_extract_columns) is made only when the
\* first (extract_columns_metadata) did not succeed.
Save ==
    /\ now < MaxSaves
    /\ \E first \in IF InSeq("probe", save(ds, db, "ok", "ok", now + 1).log)
                     THEN ProbeOutcomes ELSE {"ok"} :
       \E second \in IF first = "ok" THEN {"ok"} ELSE ProbeOutcomes :
          LET call == save(ds, db, first, second, now + 1)
          IN  /\ ds' = call.self
              /\ db' = call.stored
              /\ last_save' = [raised |-> call.raised, sql_changed |-> call.sql_changed,
                               log |-> call.log, sql |-> ds.sql, before |-> db,
                               attempt |-> call.attempt]
    /\ now' = now + 1
    /\ UNCHANGED <<sqlVars, buildVars, normVars, dataVars, callVars, execVars, inferVars, viewVars, filterVars>>

SaveNext == SetSql \/ SetConnection \/ SetContract \/ Save

SpecSave == SaveInit /\ [][SaveNext]_vars

(***************************************************************************)
(* The blocks, datasources and requests get_data is applied to.            *)
(***************************************************************************)
DataAggregationChoices ==
    {Aggregation("amount", PyStr("sum"), PyStr("Total"), PyStr("y1")),
     Aggregation("region", Missing, PyStr("Regions"), PyStr("y1")),
     Aggregation("nope", PyStr("count"), Missing, PyStr("y2"))}

DataBlocks ==
    [x_axis_field : {"sold_at", "nope"},
     x_axis_granularity : {NoField, "month"},
     y_axis_aggregations :
        UNION {[1..len -> DataAggregationChoices] : len \in 0..MaxBlockMetrics},
     series_field : {NoField, "region"},
     filter_sql : {"", "amount > 0"}]

DataSources ==
    {[StoredSales EXCEPT !.columns_metadata = columns_metadata, !.connection = connection] :
        columns_metadata \in {<<>>, DatasetColumns}, connection \in Connections}

RequestFilters ==
    {<<>>, <<<<"amount", <<<<"gte", PyStr("15")>>>>>>>>, <<<<"nope", <<<<"eq", PyStr("X")>>>>>>>>}

\* The rows the external database answers with, for a block.
Answers(blk) ==
    RowLists(IF blk.x_axis_granularity = NoField
             THEN {PyDt(2024, 1, 1, 5), PyNone} ELSE {PyDt(2024, 1, 1, 0), PyDt(2025, 1, 1, 0)},
             IF blk.series_field = NoField THEN {Missing} ELSE {PyStr("A")},
             Len(blk.y_axis_aggregations))

DataInit ==
    /\ block \in DataBlocks
    /\ ds \in DataSources
    /\ applied_filters \in RequestFilters
    /\ query_results = <<>>
    /\ got = Pending
    /\ normalized = Pending /\ db = Missing /\ now = 0 /\ last_save = Pending
    /\ SqlIdle /\ BuildIdle /\ CallIdle /\ ExecIdle /\ InferIdle /\ ViewIdle /\ FilterIdle

\* block.get_data(applied_filters); query_results: the rows fetched.
GetData ==
    /\ got = Pending
    /\ \E outcome \in ExecOutcomes :
       \E rows \in IF outcome = "ok" THEN Answers(block) ELSE {<<>>} :
          LET executed == block_execute_query(block, ds, applied_filters, outcome, rows)
              call     == get_data(block, ds, applied_filters, outcome, rows)
          IN  /\ got' = [method |-> "get_data", raised |-> call.raised, success |-> call.success,
                          data |-> call.data, outcome |-> outcome]
              /\ query_results' = IF executed.success THEN rows ELSE <<>>
    /\ UNCHANGED <<block, normalized, applied_filters, sqlVars, buildVars, saveVars, callVars, execVars, inferVars, viewVars, filterVars>>

\* ds.execute_analytical_query(**params), called on the DataSource directly
\* with the parameters of the block.
ExecuteAnalytical ==
    /\ got = Pending
    /\ \E outcome \in ExecOutcomes :
       \E rows \in IF outcome = "ok" THEN Answers(block) ELSE {<<>>} :
          LET call == execute_analytical_query(
                          ds, get_analytical_query_params(block, applied_filters), outcome, rows)
          IN  /\ got' = [method |-> "execute_analytical_query", raised |-> FALSE,
                          success |-> call.success, data |-> call.data, outcome |-> outcome]
              /\ query_results' = IF call.success THEN rows ELSE <<>>
    /\ UNCHANGED <<block, normalized, applied_filters, sqlVars, buildVars, saveVars, callVars, execVars, inferVars, viewVars, filterVars>>

DataNext == GetData \/ ExecuteAnalytical

SpecGetData == DataInit /\ [][DataNext]_vars

\* GET /dashboards/{id}/data/ for a dashboard of one active block: the entry
\* of the block in the blocks list of the response.
DashboardData ==
    /\ got = Pending /\ response = Pending
    /\ \E outcome \in ExecOutcomes :
       \E rows \in IF outcome = "ok" THEN Answers(block) ELSE {<<>>} :
          response' = [view |-> "DashboardInstanceViewSet.data", outcome |-> outcome,
                       rows |-> rows,
                       body |-> process_dashboard_block(block, ds, applied_filters,
                                                        outcome, rows)]
    /\ UNCHANGED <<block, query_results, normalized, dataVars, sqlVars, buildVars, saveVars, callVars, execVars, inferVars, filterVars>>

\* GET /dashboard-blocks/{id}/data/
BlockData ==
    /\ got = Pending /\ response = Pending
    /\ \E outcome \in ExecOutcomes :
       \E rows \in IF outcome = "ok" THEN Answers(block) ELSE {<<>>} :
          response' = [view |-> "DashboardBlockViewSet.data", outcome |-> outcome,
                       rows |-> rows,
                       body |-> block_data(block, ds, outcome, rows)]
    /\ UNCHANGED <<block, query_results, normalized, dataVars, sqlVars, buildVars, saveVars, callVars, execVars, inferVars, filterVars>>

ViewNext == DashboardData \/ BlockData

\* The requests of SpecGetData, sent to the endpoints of the API.
SpecViews == DataInit /\ [][ViewNext]_vars

(***************************************************************************)
(* A session of several build_analytical_query calls on two QueryBuilder   *)
(* objects.                                                                *)
(***************************************************************************)
\* QueryBuilder.__init__: the attributes of the new object.
QueryBuilder(base_query, columns_metadata) ==
    [base_query |-> Strip(base_query), columns_metadata |-> columns_metadata]

\* The builder that keeps the query it compiled as its base query.
BuilderAfter_KeepsCompiled(self, it) ==
    LET result == build_analytical_query(self.base_query, self.columns_metadata, it)
    IN  IF result.raised THEN self ELSE [self EXCEPT !.base_query = result.final_query]

\* The attributes of the builder after a call: the method assigns none of
\* them (select_parts, query_parts, where_clauses and params are locals).
BuilderAfter(self, it) == self

MaxCalls == 3
NumBuilders == 2
SessionQueries == {DatasetQuery, "  " \o ClientsQuery}
SessionIntent ==
    [x_axis_field |-> "sold_at", x_axis_granularity |-> "month",
     y_axis_metrics |-> <<Metric("amount", "sum", "Total")>>,
     series_field |-> NoField, filters |-> NoFilters,
     order_by |-> "metric_date", limit |-> 0]
SessionIntents ==
    {SessionIntent,
     [SessionIntent EXCEPT !.series_field = "region", !.limit = BlockLimit],
     [SessionIntent EXCEPT !.y_axis_metrics = <<Metric("nope", "sum", "Ghost")>>],
     [SessionIntent EXCEPT !.filters =
         [NoFilters EXCEPT !.date_start = PyStr("2024-01-01"),
                           !.dimensions = <<<<"region", PyList(<<"LESTE">>)>>>>,
                           !.dynamic_filters = <<<<"amount", <<<<"gte", PyStr("15")>>>>>>>>]]}

RebuildInit ==
    /\ \E queries \in [1..NumBuilders -> SessionQueries] :
          builders = [b \in 1..NumBuilders |->
                         [base_query |-> queries[b], columns_metadata |-> DatasetColumns,
                          self |-> QueryBuilder(queries[b], DatasetColumns)]]
    /\ calls = <<>>
    /\ SqlIdle /\ BuildIdle /\ NormIdle /\ SaveIdle /\ DataIdle /\ ExecIdle /\ InferIdle /\ ViewIdle /\ FilterIdle

\* One more call of build_analytical_query, on any of the builders.
Rebuild ==
    /\ Len(calls) < MaxCalls
    /\ \E b \in 1..NumBuilders, it \in SessionIntents :
          LET self == builders[b].self
          IN  /\ calls' = Append(calls,
                    [builder |-> b, intent |-> it,
                     built |-> build_analytical_query(self.base_query, self.columns_metadata, it)])
              /\ builders' = [builders EXCEPT ![b].self = BuilderAfter(self, it)]
    /\ UNCHANGED <<sqlVars, buildVars, normVars, saveVars, dataVars, execVars, inferVars, viewVars, filterVars>>

RebuildNext == Rebuild

SpecRebuild == RebuildInit /\ [][RebuildNext]_vars

(***************************************************************************)
(* QueryExecutor.execute_query, statement by statement, and the two        *)
(* introspection methods of DataSource.                                    *)
(*   execution.pc: the statement the call is at; "returned" after return.  *)
(*   execution.conn: "none" before psycopg2.connect, then "open", and      *)
(*   "closed" after conn.close() or after the object was finalized.        *)
(*   execution.failure: what went wrong in the try block, "" if nothing.   *)
(***************************************************************************)
ExecParams == {<<>>, <<<<"date_start", PyStr("2024-01-01")>>>>}
ExecRows == {<<>>, <<Row(PyDt(2024, 1, 1, 0), Missing, <<PyInt(5)>>)>>}

ExecuteInit ==
    /\ execution \in [ativo : BOOLEAN, params : ExecParams, timeout : {5, 30},
                      rows : ExecRows, pc : {"start"}, conn : {"none"},
                      statement : {""}, failure : {""}, result : {Pending}]
    /\ probe = Pending
    /\ ds \in {[StoredSales EXCEPT !.connection = connection,
                                    !.columns_metadata = columns_metadata,
                                    !.detected_columns = Names(columns_metadata)] :
                  connection \in Connections, columns_metadata \in {<<>>, DatasetColumns}}
    /\ db = Missing /\ now = 1 /\ last_save = Pending
    /\ SqlIdle /\ BuildIdle /\ NormIdle /\ DataIdle /\ CallIdle /\ InferIdle /\ ViewIdle /\ FilterIdle

\* An exception raised in the try block: the matching except clause returns
\* (False, message).  No clause closes conn; the connection object is left
\* to the garbage collector, which has finalized it (closing the socket) by
\* the return or has not.
Except(outcome, finalized) ==
    [execution EXCEPT !.pc = "returned", !.failure = outcome,
                      !.result = ExecuteFailure(ExceptionOf(outcome), execution.timeout),
                      !.conn = IF @ = "open" /\ finalized THEN "closed" ELSE @]

\* if not self.connection.ativo: return; conn = psycopg2.connect(...)
Connect ==
    /\ execution # Pending /\ execution.pc = "start"
    /\ IF ~execution.ativo
       THEN execution' = [execution EXCEPT !.pc = "returned",
                                           !.result = Failure("Conexao esta inativa")]
       ELSE \E outcome \in {"ok", "OperationalError"} :
              execution' = IF outcome = "ok"
                           THEN [execution EXCEPT !.pc = "set_timeout", !.conn = "open"]
                           ELSE Except(outcome, FALSE)
    /\ UNCHANGED <<probe, sqlVars, buildVars, normVars, saveVars, dataVars, callVars, inferVars, viewVars, filterVars>>

\* cursor = conn.cursor(...); cursor.execute("SET statement_timeout = ...")
SetTimeout ==
    /\ execution # Pending /\ execution.pc = "set_timeout"
    /\ \E outcome \in {"ok", "OperationalError"}, finalized \in BOOLEAN :
          execution' = IF outcome = "ok"
                       THEN [execution EXCEPT !.pc = "execute"]
                       ELSE Except(outcome, finalized)
    /\ UNCHANGED <<probe, sqlVars, buildVars, normVars, saveVars, dataVars, callVars, inferVars, viewVars, filterVars>>

\* cursor.execute(query, params) if params else cursor.execute(query)
ExecuteStatement ==
    /\ execution # Pending /\ execution.pc = "execute"
    /\ \E outcome \in ExecOutcomes, finalized \in BOOLEAN :
          execution' = IF outcome = "ok"
                       THEN [execution EXCEPT
                                !.pc = "fetch",
                                !.statement = IF execution.params # <<>>
                                              THEN "execute(query, params)"
                                              ELSE "execute(query)"]
                       ELSE Except(outcome, finalized)
    /\ UNCHANGED <<probe, sqlVars, buildVars, normVars, saveVars, dataVars, callVars, inferVars, viewVars, filterVars>>

\* results = cursor.fetchall(); data = [dict(row) for row in results]
Fetch ==
    /\ execution # Pending /\ execution.pc = "fetch"
    /\ \E outcome \in {"ok", "OperationalError", "Exception"}, finalized \in BOOLEAN :
          execution' = IF outcome = "ok"
                       THEN [execution EXCEPT !.pc = "close"]
                       ELSE Except(outcome, finalized)
    /\ UNCHANGED <<probe, sqlVars, buildVars, normVars, saveVars, dataVars, callVars, inferVars, viewVars, filterVars>>

\* cursor.close(); conn.close(); return True, data
Close ==
    /\ execution # Pending /\ execution.pc = "close"
    /\ execution' = [execution EXCEPT !.pc = "returned", !.conn = "closed",
                                      !.result = [success |-> TRUE, data |-> execution.rows]]
    /\ UNCHANGED <<probe, sqlVars, buildVars, normVars, saveVars, dataVars, callVars, inferVars, viewVars, filterVars>>

\* The garbage collector finalizes a connection object left open.
Finalize ==
    /\ execution # Pending /\ execution.pc = "returned" /\ execution.conn = "open"
    /\ execution' = [execution EXCEPT !.conn = "closed"]
    /\ UNCHANGED <<probe, sqlVars, buildVars, normVars, saveVars, dataVars, callVars, inferVars, viewVars, filterVars>>

\* A call of DataSource.extract_columns_metadata.
ExtractColumns ==
    /\ probe = Pending
    /\ \E outcome \in ProbeOutcomes :
          LET call == extract_columns_metadata(ds, outcome, now)
          IN  /\ probe' = [method |-> "extract_columns_metadata", outcome |-> outcome,
                           success |-> call.success, probed |-> call.probed,
                           before |-> ds]
              /\ ds' = call.self
    /\ UNCHANGED <<execution, db, now, last_save, sqlVars, buildVars, normVars, dataVars, callVars, inferVars, viewVars, filterVars>>

\* A call of DataSource.validate_and_extract_columns.
ValidateColumns ==
    /\ probe = Pending
    /\ \E outcome \in ProbeOutcomes :
          LET call == validate_and_extract_columns(ds, outcome, now)
          IN  /\ probe' = [method |-> "validate_and_extract_columns", outcome |-> outcome,
                           success |-> call.success, probed |-> call.probed,
                           before |-> ds]
              /\ ds' = call.self
    /\ UNCHANGED <<execution, db, now, last_save, sqlVars, buildVars, normVars, dataVars, callVars, inferVars, viewVars, filterVars>>

ExecuteNext ==
    \/ Connect \/ SetTimeout \/ ExecuteStatement \/ Fetch \/ Close \/ Finalize
    \/ ExtractColumns \/ ValidateColumns

SpecExecute == ExecuteInit /\ [][ExecuteNext]_vars

(***************************************************************************)
(* The classification of one column of the probe, for type names made of   *)
(* up to MaxTypePieces pieces.                                             *)
(***************************************************************************)
MaxTypePieces == 2
TypePieces ==
    {"timestamp", "TIMESTAMPTZ", "date", "Time", "interval", "int", "INT", "bigint",
     "numeric", "double precision", "Money", "real", "varchar", "text", "bool",
     "uuid", "unknown", " ", "e", "4"}

RECURSIVE TypeNames(_)
TypeNames(n) ==
    IF n = 0 THEN {""}
    ELSE TypeNames(n - 1) \cup {name \o piece : name \in TypeNames(n - 1), piece \in TypePieces}

InferInit ==
    /\ typname \in TypeNames(MaxTypePieces)
    /\ metadata = Pending
    /\ SqlIdle /\ BuildIdle /\ NormIdle /\ SaveIdle /\ DataIdle /\ CallIdle /\ ExecIdle /\ ViewIdle /\ FilterIdle

\* The body of the loop over cursor.description, for a column named "c".
DescribeColumn ==
    /\ metadata = Pending
    /\ metadata' = ColumnMetadataOf("c", typname)
    /\ UNCHANGED <<typname, sqlVars, buildVars, normVars, saveVars, dataVars, callVars, execVars, viewVars, filterVars>>

InferNext == DescribeColumn

SpecInfer == InferInit /\ [][InferNext]_vars

(***************************************************************************)
(* DashboardTemplate.get_filter_metadata: the queries that compute the     *)
(* available values of the template's filterable fields.  Whitespace runs  *)
(* of the query texts are written as one space.                            *)
(***************************************************************************)
\* One (operator, value) condition on field, in _build_dynamic_where_clauses.
FilterCondition(field, operator, value, w) ==
    LET param_name == "filter_" \o field \o "_" \o operator
    IN  CASE operator = "gte" ->
                AddClause(w, field \o " >= " \o Placeholder(param_name), param_name, value)
          [] operator = "lte" ->
                AddClause(w, field \o " <= " \o Placeholder(param_name), param_name, value)
          [] operator = "gt" ->
                AddClause(w, field \o " > " \o Placeholder(param_name), param_name, value)
          [] operator = "lt" ->
                AddClause(w, field \o " < " \o Placeholder(param_name), param_name, value)
          [] operator = "eq" ->
                AddClause(w, field \o " = " \o Placeholder(param_name), param_name, value)
          [] operator = "in" /\ value.t = "list" /\ Len(value.l) > 0 ->
                AddClause(w, field \o " = ANY(" \o Placeholder(param_name) \o ")",
                          param_name, value)
          [] OTHER -> w

RECURSIVE FilterConditions(_, _, _)
FilterConditions(field, conditions, w) ==
    IF conditions = <<>> THEN w
    ELSE FilterConditions(field, Tail(conditions),
            FilterCondition(field, Head(conditions)[1], Head(conditions)[2], w))

\* A variant that also applies the filter on the field being computed.
FieldClauses_Circular(field, conditions, exclude_field, w) ==
    FilterConditions(field, conditions, w)

\* The body of the loop over applied_filters.items(): the field being
\* computed is skipped.
FieldClauses(field, conditions, exclude_field, w) ==
    IF field = exclude_field THEN w ELSE FilterConditions(field, conditions, w)

RECURSIVE FilterClausesFrom(_, _, _)
FilterClausesFrom(filters, exclude_field, w) ==
    IF filters = <<>> THEN w
    ELSE FilterClausesFrom(Tail(filters), exclude_field,
            FieldClauses(Head(filters)[1], Head(filters)[2], exclude_field, w))

\* DashboardTemplate._build_dynamic_where_clauses -> (where_clauses, params)
build_dynamic_where_clauses(filters, exclude_field) ==
    FilterClausesFrom(filters, exclude_field, NoClauses)

\* all_where_clauses / additional_where and query_params of one query.
FilterWhere(instance_filter, filters, field) ==
    LET dynamic == build_dynamic_where_clauses(filters, field)
    IN  [where_clauses |->
             (IF instance_filter # "" THEN <<"(" \o instance_filter \o ")">> ELSE <<>>)
             \o dynamic.where_clauses,
         params |-> dynamic.params]

\* min_max_query and its query_params
TemporalQuery(sql, instance_filter, filters, field) ==
    LET w == FilterWhere(instance_filter, filters, field)
    IN  [kind |-> "temporal", field |-> field,
         where_clauses |-> w.where_clauses, params |-> w.params,
         query |-> "SELECT MIN(" \o field \o ") as min_value, MAX(" \o field
                   \o ") as max_value FROM (" \o sql \o ") AS base_data"
                   \o (IF w.where_clauses # <<>>
                       THEN " WHERE " \o Join(w.where_clauses, " AND ") ELSE "")]

\* distinct_query and its query_params
CategoricalQuery(sql, instance_filter, filters, field) ==
    LET w == FilterWhere(instance_filter, filters, field)
    IN  [kind |-> "categorical", field |-> field,
         where_clauses |-> w.where_clauses, params |-> w.params,
         query |-> "SELECT DISTINCT " \o field \o " as value FROM (" \o sql
                   \o ") AS base_data WHERE " \o field \o " IS NOT NULL"
                   \o (IF w.where_clauses # <<>>
                       THEN " AND " \o Join(w.where_clauses, " AND ") ELSE "")
                   \o " ORDER BY " \o field \o " LIMIT 100"]

\* The queries get_filter_metadata sends for a template whose first
\* datasource has the given sql: the temporal one, then one per categorical
\* field.
FilterQueries(tpl, sql, instance_filter, filters) ==
    IF tpl.filterable_fields.temporal = NoField /\ tpl.filterable_fields.categorical = <<>>
    THEN <<>>
    ELSE (IF tpl.filterable_fields.temporal # NoField
          THEN <<TemporalQuery(sql, instance_filter, filters,
                               tpl.filterable_fields.temporal)>>
          ELSE <<>>)
         \o [i \in 1..Len(tpl.filterable_fields.categorical) |->
                CategoricalQuery(sql, instance_filter, filters,
                                 tpl.filterable_fields.categorical[i])]

\* The metadata dict returned: a query that raises or yields no rows leaves
\* its field out.
get_filter_metadata(queries, outcomes) ==
    LET answered == {i \in 1..Len(queries) : outcomes[i] = "rows"}
    IN  [temporal |-> {queries[i].field : i \in {j \in answered : queries[j].kind = "temporal"}},
         categorical |->
             {queries[i].field : i \in {j \in answered : queries[j].kind = "categorical"}}]

Templates ==
    {[filterable_fields |-> [temporal |-> temporal, categorical |-> categorical]] :
        temporal \in {NoField, "sold_at"},
        categorical \in {<<>>, <<"region">>, <<"region", "seller">>}}

InstanceFilters == {"", "unit_code = 'SP-01'"}

\* The conditions a request can carry for one field.
FilterConditionChoices(field) ==
    CASE field = "sold_at" ->
            {<<<<"gte", PyStr("2024-01-01")>>, <<"lte", PyStr("2024-12-31")>>>>,
             <<<<"gt", PyStr("2024-01-01")>>>>}
      [] field = "region" ->
            {<<<<"in", PyList(<<PyStr("A"), PyStr("B")>>)>>>>,
             <<<<"in", PyList(<<>>)>>>>,
             <<<<"eq", PyStr("A")>>, <<"lt", PyStr("C")>>>>}
      [] OTHER -> {<<<<"in", PyList(<<PyInt(1)>>)>>>>, <<<<"between", PyStr("1")>>>>}

\* The applied_filters dicts: each field absent or with one of its choices.
RECURSIVE AppliedFilters(_)
AppliedFilters(fields) ==
    IF fields = <<>> THEN {<<>>}
    ELSE LET rest == AppliedFilters(Tail(fields))
         IN  rest \cup {<<<<Head(fields), conditions>>>> \o r :
                           conditions \in FilterConditionChoices(Head(fields)), r \in rest}

FilterInit ==
    /\ template \in Templates
    /\ instance_filter_sql \in InstanceFilters
    /\ applied_filters \in AppliedFilters(<<"sold_at", "region", "seller">>)
    /\ filter_queries = Pending
    /\ ds = StoredSales
    /\ got = Pending /\ db = Missing /\ now = 0 /\ last_save = Pending
    /\ SqlIdle /\ BuildIdle /\ NormIdle /\ CallIdle /\ ExecIdle /\ InferIdle /\ ViewIdle

\* template.get_filter_metadata(instance_filter_sql, applied_filters), each
\* query answered with rows, with none, or with an exception.
GetFilterMetadata ==
    /\ filter_queries = Pending
    /\ LET queries == FilterQueries(template, ds.sql, instance_filter_sql, applied_filters)
       IN  \E outcomes \in [1..Len(queries) -> {"rows", "empty", "Exception"}] :
              filter_queries' = [queries |-> queries,
                                 metadata |-> get_filter_metadata(queries, outcomes)]
    /\ UNCHANGED <<template, instance_filter_sql, sqlVars, buildVars, normVars, saveVars, dataVars, callVars, execVars, inferVars, viewVars>>

FilterNext == GetFilterMetadata

SpecFilter == FilterInit /\ [][FilterNext]_vars

(***************************************************************************)
(* Claims                                                                  *)
(***************************************************************************)
ColumnNames(cols) == {cols[i].name : i \in 1..Len(cols)}
Called == built # Pending
NothingAssembled ==
    /\ built.select_parts = <<>>
    /\ built.where_clauses = <<>>
    /\ built.query_parts = <<>>
    /\ built.final_query = ""
    /\ built.params = <<>>

\* C2: a call whose axis field, series field or some metric field is set to
\* a name that is no column of the dataset raises a validation error, with
\* no part of the SQL assembled and no SQL returned.
C2_UnknownField ==
    LET names == ColumnNames(builder.columns_metadata)
    IN  \/ intent.x_axis_field # NoField /\ intent.x_axis_field \notin names
        \/ intent.series_field # NoField /\ intent.series_field \notin names
        \/ \E i \in 1..Len(intent.y_axis_metrics) : intent.y_axis_metrics[i].field \notin names

C2_UnknownFieldRejected ==
    (Called /\ C2_UnknownField) =>
        /\ built.raised
        /\ built.error.kind \in {"x_axis", "series", "metric_field", "aggregation"}
        /\ NothingAssembled

C2_Witness ==
    /\ Called
    /\ intent.x_axis_field = "sold_at"
    /\ intent.series_field = "nope"
    /\ Len(intent.y_axis_metrics) = 1 /\ intent.y_axis_metrics[1].field = "amount"
    /\ built.raised /\ built.error = ValueError("series", <<"nope">>)

\* C3: no filter value (date bound, dimension value list, dynamic-filter
\* operand or IN-list) occurs in the compiled SQL text; every value the
\* query uses is an entry of params, and the SQL refers to it by its
\* %(name)s placeholder.
C3_Values(f) ==
    {f.date_start, f.date_end}
    \cup {f.dimensions[i][2] : i \in 1..Len(f.dimensions)}
    \cup UNION {{f.dynamic_filters[i][2][j][2] : j \in 1..Len(f.dynamic_filters[i][2])} :
                   i \in 1..Len(f.dynamic_filters)}

C3_Strings(v) ==
    IF v.t = "str" THEN {v.s} \ {""}
    ELSE IF v.t = "list" THEN {v.l[i] : i \in 1..Len(v.l)}
    ELSE {}

C3_Bound(name, value) == \E i \in 1..Len(built.params) : built.params[i] = <<name, value>>

C3_Applied ==
    LET f     == intent.filters
        names == ColumnNames(builder.columns_metadata)
    IN  /\ (intent.x_axis_field # NoField /\ Truthy(f.date_start))
              => C3_Bound("date_start", f.date_start)
        /\ (intent.x_axis_field # NoField /\ Truthy(f.date_end))
              => C3_Bound("date_end", f.date_end)
        /\ \A i \in 1..Len(f.dimensions) :
              f.dimensions[i][1] \in names
                  => C3_Bound("dim_" \o f.dimensions[i][1], f.dimensions[i][2])
        /\ \A i \in 1..Len(f.dynamic_filters) :
              \A j \in 1..Len(f.dynamic_filters[i][2]) :
                  LET field == f.dynamic_filters[i][1]
                      op    == f.dynamic_filters[i][2][j][1]
                      value == f.dynamic_filters[i][2][j][2]
                  IN  (/\ field \in names
                       /\ \/ op \in {"gte", "lte", "gt", "lt", "eq"}
                          \/ op = "in" /\ value.t = "list" /\ value.l # <<>>)
                          => C3_Bound("dyn_" \o field \o "_" \o op, value)

C3_ValuesAreParameters ==
    (Called /\ ~built.raised) =>
        /\ \A v \in C3_Values(intent.filters) :
              \A text \in C3_Strings(v) : ~SearchSubstring(built.final_query, text)
        /\ \A i \in 1..Len(built.params) :
              /\ SearchSubstring(built.final_query, Placeholder(built.params[i][1]))
              /\ built.params[i][2] \in C3_Values(intent.filters)
        /\ C3_Applied

C3_Witness ==
    /\ Called /\ ~built.raised
    /\ C3_Bound("date_start", PyStr("2024-01-01"))
    /\ C3_Bound("dim_region", PyList(<<"LESTE">>))
    /\ C3_Bound("dyn_amount_eq", PyStr("EAST"))
    /\ C3_Bound("dyn_amount_in", PyList(<<"NORTH", "SOUTH">>))

\* C4: the SQL safety validation accepts a non-empty text exactly when it
\* holds no semicolon, begins (trimmed, lowercased) with select or with, and
\* none of its words (maximal runs of word characters) is a forbidden
\* keyword; a text with a semicolon is rejected for the semicolon.
C4_Words(s) ==
    {SubSeq(s, i, j) : <<i, j>> \in
        {p \in (1..Len(s)) \X (1..Len(s)) :
            /\ p[1] <= p[2]
            /\ \A k \in p[1]..p[2] : IsWordChar(CharAt(s, k))
            /\ (p[1] = 1 \/ ~IsWordChar(CharAt(s, p[1] - 1)))
            /\ (p[2] = Len(s) \/ ~IsWordChar(CharAt(s, p[2] + 1)))}}

C4_Expected(q) ==
    /\ ~InStr(";", q)
    /\ StartsWith(Lower(Strip(q)), "select") \/ StartsWith(Lower(Strip(q)), "with")
    /\ \A k \in 1..Len(forbidden_keywords) : forbidden_keywords[k] \notin C4_Words(Lower(q))

C4_SqlSafety ==
    (sql_verdict # Pending /\ query # "") =>
        \A v \in {sql_verdict.builder, sql_verdict.datasource} :
            /\ v.ok <=> C4_Expected(query)
            /\ InStr(";", query) => (~v.ok /\ v.reason = "semicolon")

C4_Witness ==
    /\ sql_verdict # Pending
    /\ query = "select updated_at"
    /\ sql_verdict.builder.ok /\ sql_verdict.datasource.ok

\* C5: a call with a metric whose aggregation is not among the
\* allowed_aggregations of the metric's column raises a validation error and
\* returns no SQL; the error names the aggregation and the field of the
\* first metric that fails its check.
C5_Illegal(m) ==
    /\ HasColumn(builder.columns_metadata, m.field)
    /\ ~InSeq(m.aggregation,
              get_column_metadata(builder.columns_metadata, m.field).allowed_aggregations)

C5_FirstFailure(i) ==
    LET names == ColumnNames(builder.columns_metadata)
    IN  /\ intent.x_axis_field # NoField => intent.x_axis_field \in names
        /\ intent.series_field # NoField => intent.series_field \in names
        /\ \A j \in 1..(i - 1) :
              /\ intent.y_axis_metrics[j].field \in names
              /\ ~C5_Illegal(intent.y_axis_metrics[j])

C5_IllegalAggregationRejected ==
    Called =>
        \A i \in 1..Len(intent.y_axis_metrics) :
            C5_Illegal(intent.y_axis_metrics[i]) =>
                /\ built.raised
                /\ NothingAssembled
                /\ C5_FirstFailure(i) =>
                      built.error = ValueError("aggregation",
                          <<intent.y_axis_metrics[i].aggregation, intent.y_axis_metrics[i].field>>)

C5_Witness ==
    /\ Called
    /\ Len(intent.y_axis_metrics) = 2
    /\ intent.y_axis_metrics[2] = Metric("region", "sum", "Total")
    /\ built.raised /\ built.error = ValueError("aggregation", <<"sum", "region">>)

(***************************************************************************)
(* Claims about normalize_query_results (SpecNormalize).                   *)
(***************************************************************************)
Normalized == normalized # Pending /\ ~normalized.raised

\* C1: every series returned by normalize_query_results has a values list
\* whose length equals the length of x, for any rows, any number of metrics,
\* with or without a series key and with or without a granularity.
C1_DenseSeries ==
    Normalized =>
        \A k \in 1..Len(normalized.series) :
            Len(normalized.series[k].values) = Len(normalized.x)

\* A result with two x labels and a series that has no row for one of them.
C1_Witness ==
    /\ Normalized
    /\ block.x_axis_granularity = "month"
    /\ Len(normalized.x) = 2
    /\ Len(normalized.series) = 2
    /\ \E k \in 1..2 : normalized.series[k].values[2] = PyNone

\* The rows as the query builder's GROUP BY yields them: every row has a
\* metric_date that is not NULL, all rows have a series_key or none has, and
\* no two rows share a (series_key, metric_date) pair.
GroupedRows ==
    /\ query_results # <<>>
    /\ \A r \in 1..Len(query_results) :
          /\ query_results[r].metric_date \notin {Missing, PyNone}
          /\ query_results[r].series_key # PyNone
          /\ (query_results[r].series_key = Missing) = (query_results[1].series_key = Missing)
    /\ \A r1, r2 \in 1..Len(query_results) :
          (/\ query_results[r1].metric_date = query_results[r2].metric_date
           /\ query_results[r1].series_key = query_results[r2].series_key) => r1 = r2

DistinctLabels ==
    \A m1, m2 \in 1..Len(block.y_axis_aggregations) :
        AggLabel(block.y_axis_aggregations[m1]) = AggLabel(block.y_axis_aggregations[m2])
            => m1 = m2

RowKey(row) == IF row.series_key = Missing THEN "default" ELSE PyToStr(row.series_key)
RowKeys == {RowKey(query_results[r]) : r \in 1..Len(query_results)}

\* C9: with at most one row per (series_key, metric_date) pair, values[i] of
\* the series of a series key and a metric is the metric value of the row
\* that has that series key and the metric_date bucket of x[i], and null
\* when no row has that combination.
C9_ValuesMatchRows ==
    (Normalized /\ GroupedRows /\ DistinctLabels) =>
        LET raw_x_values == Sorted(RawXSet(query_results))
            aggs         == block.y_axis_aggregations
            has_series   == query_results[1].series_key # Missing
        IN  \A key \in RowKeys : \A m \in 1..Len(aggs) : \A i \in 1..Len(normalized.x) :
                LET label == SerieLabel(aggs, has_series, key, AggLabel(aggs[m]))
                    rows  == {r \in 1..Len(query_results) :
                                 /\ RowKey(query_results[r]) = key
                                 /\ query_results[r].metric_date = raw_x_values[i]}
                IN  \E k \in 1..Len(normalized.series) :
                        /\ normalized.series[k].label = label
                        /\ normalized.series[k].values[i] =
                               IF rows = {} THEN PyNone
                               ELSE query_results[CHOOSE r \in rows : TRUE].metric_values[m]

\* C10: for non-empty rows there is one series per (distinct series key,
\* metric) pair, metrics of equal labels included.
C10_OneSeriesPerKeyAndMetric ==
    (Normalized /\ query_results # <<>>) =>
        LET has_series == query_results[1].series_key # Missing
            keys == IF has_series
                    THEN {PyToStr(RowGet(query_results[r].series_key, PyStr(""))) :
                             r \in 1..Len(query_results)}
                    ELSE {"default"}
        IN  Len(normalized.series) = Cardinality(keys) * Len(block.y_axis_aggregations)

(***************************************************************************)
(* Claims about DataSource.save (SpecSave).                                *)
(***************************************************************************)
Saved == last_save # Pending

\* C6: in every call of save the SQL safety validation comes before any
\* probe of the external database and before the record is persisted, and
\* when it rejects the SQL the call opens no probe and persists nothing.
C6_ValidationFirst ==
    Saved =>
        /\ \A i \in 1..Len(last_save.log) :
              last_save.log[i] \in {"probe", "persist"} =>
                  \E j \in 1..(i - 1) : last_save.log[j] = "validate"
        /\ ~SqlSecurity[last_save.sql].ok =>
              /\ last_save.raised
              /\ \A i \in 1..Len(last_save.log) : last_save.log[i] \notin {"probe", "persist"}
              /\ db = last_save.before

\* An update of a stored record to a rejected SQL, after an update that
\* probed twice and persisted.
C6_Witness ==
    /\ Saved
    /\ last_save.before # Missing
    /\ last_save.before.sql = ClientsQuery
    /\ last_save.before.last_validation_error # ""
    /\ last_save.sql = "drop table sales"
    /\ last_save.sql_changed /\ last_save.raised

\* C7: a save with a base SQL different from the stored one, which probes
\* the external database, never leaves the previous SQL's columns_metadata
\* in the stored record (unless the new SQL has the same columns), whatever
\* the outcome of the probes.
C7_MetadataFollowsSql ==
    (Saved /\ ~last_save.raised /\ last_save.sql_changed
        /\ (\E i \in 1..Len(last_save.log) : last_save.log[i] = "probe")
        /\ last_save.before.columns_metadata # <<>>
        /\ Names(last_save.before.columns_metadata) # [i \in 1..Len(Description(db.sql)) |->
                                                          Description(db.sql)[i][1]])
    => db.columns_metadata # last_save.before.columns_metadata

(***************************************************************************)
(* Claims about DashboardBlock.get_data (SpecGetData).                     *)
(***************************************************************************)
Got == got # Pending /\ got.method = "get_data"

\* The compilation of the block's query for the request does not raise.
Compiles ==
    /\ block.y_axis_aggregations # <<>>
    /\ ds.columns_metadata # <<>>
    /\ ~build_analytical_query(Strip(ds.sql), ds.columns_metadata,
                               get_analytical_query_params(block, applied_filters)).raised

\* The execution of the compiled query succeeds.
Executes == ds.connection = "active" /\ got.outcome = "ok"

\* C8: get_data returns (True, normalized result) only when the compilation
\* and the execution both succeeded, and then the result is the
\* normalization of the rows fetched; when the compilation raises or the
\* execution fails it returns (False, message), never a normalized result.
C8_NoBestEffortResult ==
    Got =>
        /\ got.success =>
              /\ Compiles /\ Executes
              /\ DOMAIN got.data = {"x", "series"}
              /\ got.data.x = normalize_query_results(block, query_results).x
              /\ got.data.series = normalize_query_results(block, query_results).series
        /\ ~(Compiles /\ Executes) =>
              /\ ~got.raised /\ ~got.success
              /\ DOMAIN got.data = {"t", "s"}
              /\ got.data.s # ""

\* A compilation that raises (an unknown metric field) with a database that
\* would answer.
C8_Witness ==
    /\ Got
    /\ ~Compiles /\ Executes
    /\ block.y_axis_aggregations # <<>> /\ ds.columns_metadata # <<>>
    /\ ~got.success

(***************************************************************************)
(* Further claims about normalize_query_results (SpecNormalize).           *)
(***************************************************************************)
\* C11: the x list of a normalized result holds no label twice, and its
\* labels are those of the distinct metric_date buckets in ascending order
\* of the buckets, for every granularity.
C11_SortedDistinctLabels ==
    (Normalized /\ GroupedRows) =>
        LET raw_x_values == Sorted(RawXSet(query_results))
        IN  /\ Len(normalized.x) = Len(raw_x_values)
            /\ \A i \in 1..Len(normalized.x) :
                  normalized.x[i] =
                      format_x_axis_value(block.x_axis_granularity, raw_x_values[i])
            /\ \A i, j \in 1..Len(raw_x_values) : i < j => PyLess(raw_x_values[i], raw_x_values[j])
            /\ \A i, j \in 1..Len(normalized.x) : i # j => normalized.x[i] # normalized.x[j]

\* C12: normalize_query_results returns a result, without raising, for
\* every list of rows: also when metric_date is null in some rows and not in
\* others, or when a row lacks the metric_date key.
C12_NormalizeNeverRaises ==
    normalized # Pending => ~normalized.raised

(***************************************************************************)
(* Further claims about build_analytical_query (SpecBuild).                *)
(***************************************************************************)
\* The fields named by the keys of the dimension and dynamic filters.
FilterFields ==
    {intent.filters.dimensions[i][1] : i \in 1..Len(intent.filters.dimensions)}
    \cup {intent.filters.dynamic_filters[i][1] : i \in 1..Len(intent.filters.dynamic_filters)}

\* C13: a dimension or dynamic filter on a field that is not a column of
\* the dataset makes build_analytical_query raise; no query is produced
\* with the filter dropped.
C13_UnknownFilterFieldRejected ==
    (Called /\ \E field \in FilterFields : field \notin ColumnNames(builder.columns_metadata))
        => built.raised

\* C14: when a granularity is given, the compilation succeeds only if an
\* axis field is set, it is a datetime column and the granularity is one of
\* its allowed granularities.
C14_GranularityNeedsDatetimeAxis ==
    (Called /\ intent.x_axis_granularity # NoField /\ ~built.raised) =>
        /\ intent.x_axis_field # NoField
        /\ validate_column(builder.columns_metadata, intent.x_axis_field)
        /\ get_column_metadata(builder.columns_metadata, intent.x_axis_field).semantic_type
               = "datetime"
        /\ InSeq(intent.x_axis_granularity,
                 get_column_metadata(builder.columns_metadata,
                                     intent.x_axis_field).allowed_granularities)

\* The lines of the compiled SQL that open with the given keyword.
PartsOpening(keyword) ==
    {i \in 1..Len(built.query_parts) : StartsWith(built.query_parts[i], keyword)}

\* C15: the compiled SQL has a GROUP BY clause exactly when an axis field or
\* a series field is set; the clause lists metric_date exactly when the axis
\* field is set and series_key exactly when the series field is set; with
\* neither set the query selects 'Total' AS metric_date and no series_key.
C15_GroupByFollowsAxisAndSeries ==
    (Called /\ ~built.raised) =>
        LET axis   == intent.x_axis_field # NoField
            series == intent.series_field # NoField
            group  == PartsOpening("GROUP BY")
        IN  /\ (group # {}) <=> (axis \/ series)
            /\ Cardinality(group) <= 1
            /\ \A i \in group :
                  built.query_parts[i] =
                      IF axis /\ series THEN "GROUP BY metric_date, series_key"
                      ELSE IF axis THEN "GROUP BY metric_date"
                      ELSE "GROUP BY series_key"
            /\ (~axis /\ ~series) =>
                  /\ built.select_parts[1] = "'Total' AS metric_date"
                  /\ \A i \in 1..Len(built.select_parts) :
                        ~SearchSubstring(built.select_parts[i], "series_key")

\* A query grouped by the series alone, and a full aggregate.
C15_Witness ==
    /\ Called /\ ~built.raised
    /\ intent.x_axis_field = NoField /\ intent.series_field # NoField
    /\ \E i \in PartsOpening("GROUP BY") : built.query_parts[i] = "GROUP BY series_key"

\* C16: with no axis field the compiled SQL has no ORDER BY clause, whatever
\* order_by is passed and whether or not a series field is set (the ORDER BY
\* inside a median's WITHIN GROUP is part of a SELECT item, not a clause).
C16_OrderByNeedsAxis ==
    (Called /\ ~built.raised /\ intent.x_axis_field = NoField) =>
        PartsOpening("ORDER BY") = {}

\* An order_by passed with a series field and no axis field.
C16_Witness ==
    /\ Called /\ ~built.raised
    /\ intent.x_axis_field = NoField /\ intent.series_field # NoField
    /\ intent.order_by # NoField
    /\ PartsOpening("GROUP BY") # {}

\* The kind of one conjunct of the WHERE clause.
IsRawFragment(clause) == StartsWith(clause, "(")
IsMembership(clause) == ~IsRawFragment(clause) /\ SearchSubstring(clause, " = ANY(")
IsRange(clause) ==
    /\ ~IsRawFragment(clause) /\ ~IsMembership(clause)
    /\ \E sym \in {" >= ", " <= ", " > ", " < ", " = "} : SearchSubstring(clause, sym)

\* C17: in the compiled WHERE clause every range comparison comes before
\* every set-membership clause, and both come before the raw fragments, which
\* are the last conjuncts and are each wrapped in parentheses.
C17_RangeThenMembershipThenRaw ==
    (Called /\ ~built.raised) =>
        LET w == built.where_clauses
        IN  /\ \A i, j \in 1..Len(w) :
                  i < j => /\ ~(IsMembership(w[i]) /\ IsRange(w[j]))
                           /\ ~(IsRawFragment(w[i]) /\ ~IsRawFragment(w[j]))
            /\ \A i \in 1..Len(w) :
                  IsRawFragment(w[i]) => CharAt(w[i], Len(w[i])) = ")"

\* Two calls were given the same base query, column metadata and intent.
SameInputs(c, d) ==
    /\ builders[c.builder].base_query = builders[d.builder].base_query
    /\ builders[c.builder].columns_metadata = builders[d.builder].columns_metadata
    /\ c.intent = d.intent

ExecuteReturned == execution # Pending /\ execution.pc = "returned"

\* C19: when the external database cancels a statement because the statement
\* timeout expired, execute_query returns the 'Query cancelada (timeout ...)'
\* result and the introspection methods store that message, never the
\* connection-error or the query-error message.
C19_TimeoutReportedAsTimeout ==
    /\ (ExecuteReturned /\ execution.failure = "timeout") =>
          execution.result =
              Failure("Query cancelada (timeout de " \o ToString(execution.timeout)
                          \o "s excedido)")
    /\ (probe # Pending /\ probe.probed /\ probe.outcome = "timeout") =>
          ds.last_validation_error = "Query cancelada (timeout de 5s excedido)"

\* C20: when execute_query has returned, the connection it opened is closed,
\* on the success path and on every failure path after psycopg2.connect.
C20_ConnectionClosedOnReturn ==
    ExecuteReturned => execution.conn # "open"

\* C21: extract_columns_metadata changes no field of the DataSource it is
\* called on: columns_metadata, detected_columns, last_validation_at and
\* last_validation_error are after the call what they were before it.
C21_IntrospectionLeavesDatasetUnchanged ==
    (probe # Pending /\ probe.method = "extract_columns_metadata") =>
        /\ ds.columns_metadata = probe.before.columns_metadata
        /\ ds.detected_columns = probe.before.detected_columns
        /\ ds.last_validation_at = probe.before.last_validation_at
        /\ ds.last_validation_error = probe.before.last_validation_error

\* C22: a call of get_data or of execute_analytical_query on a DataSource
\* whose columns_metadata is empty fails with the error of the missing
\* metadata, whatever the external database would answer; no rows are
\* fetched and nothing is introspected on demand.  DashboardBlock.execute_query
\* fails before it compiles.
C22_NoIntrospectionOnDemand ==
    (got # Pending /\ ds.columns_metadata = <<>>) =>
        /\ ~got.success /\ ~got.raised
        /\ query_results = <<>>
        /\ got.data =
              IF got.method = "execute_analytical_query"
              THEN PyStr("Erro ao gerar/executar query: Metadados de colunas nao disponiveis")
              ELSE IF block.y_axis_aggregations = <<>>
              THEN PyStr("Configure pelo menos uma agregacao")
              ELSE PyStr("DataSource nao possui metadados")

\* The DataSource without metadata is asked directly, with an active
\* connection to a database that would answer.
C22_Witness ==
    /\ got # Pending /\ got.method = "execute_analytical_query"
    /\ ds.columns_metadata = <<>> /\ ds.connection = "active"
    /\ got.outcome = "ok" /\ ~got.success
    /\ block.y_axis_aggregations # <<>>

\* The lowercased type name contains one of the tokens.
Mentions(tokens) == \E token \in tokens : SearchSubstring(Lower(typname), token)
DatetimeTokens == {"timestamp", "timestamptz", "date", "time", "timetz", "interval"}
MeasureTokens ==
    {"integer", "int", "bigint", "smallint", "decimal", "numeric", "real",
     "double precision", "float", "money"}

\* C23: infer_semantic_type answers for every type name: datetime when the
\* lowercased name contains a datetime token, also when it contains a measure
\* token as well; otherwise measure when it contains a measure token;
\* otherwise dimension.
C23_InferenceByTokenPrecedence ==
    metadata # Pending =>
        /\ metadata.semantic_type \in {"datetime", "measure", "dimension"}
        /\ Mentions(DatetimeTokens) => metadata.semantic_type = "datetime"
        /\ (~Mentions(DatetimeTokens) /\ Mentions(MeasureTokens)) =>
              metadata.semantic_type = "measure"
        /\ (~Mentions(DatetimeTokens) /\ ~Mentions(MeasureTokens)) =>
              metadata.semantic_type = "dimension"

\* A type name holding a datetime token and a measure token ('interval'
\* contains 'int'), classified.
C23_Witness ==
    /\ metadata # Pending
    /\ Mentions(DatetimeTokens) /\ Mentions(MeasureTokens)
    /\ SearchSubstring(typname, "interval")
    /\ metadata.semantic_type = "datetime"

\* C24: every ColumnMetadata the introspection builds has the aggregations
\* of its semantic type (measure: sum, avg, count, count_distinct, min, max,
\* median; dimension: count, count_distinct; datetime: count, min, max) and
\* has granularities (hour, day, week, month, quarter, year) exactly when its
\* semantic type is datetime.
C24_OperationsFollowSemanticType ==
    metadata # Pending =>
        /\ metadata.semantic_type = "measure" =>
              metadata.allowed_aggregations =
                  <<"sum", "avg", "count", "count_distinct", "min", "max", "median">>
        /\ metadata.semantic_type = "dimension" =>
              metadata.allowed_aggregations = <<"count", "count_distinct">>
        /\ metadata.semantic_type = "datetime" =>
              /\ metadata.allowed_aggregations = <<"count", "min", "max">>
              /\ metadata.allowed_granularities =
                    <<"hour", "day", "week", "month", "quarter", "year">>
        /\ (metadata.allowed_granularities # <<>>) <=> (metadata.semantic_type = "datetime")

\* A measure column, built with no granularities.
C24_Witness ==
    /\ metadata # Pending
    /\ metadata.semantic_type = "measure"
    /\ metadata.allowed_granularities = <<>>
    /\ Len(metadata.allowed_aggregations) = 7


(***************************************************************************)
(* Claims about the data endpoints (SpecViews).                            *)
(***************************************************************************)
\* The request's filters compile with the block, the database answers with
\* the rows of the response record and the rows normalize.
WouldSucceed(filters) ==
    /\ block.y_axis_aggregations # <<>>
    /\ ds.columns_metadata # <<>>
    /\ ~build_analytical_query(Strip(ds.sql), ds.columns_metadata,
                               get_analytical_query_params(block, filters)).raised
    /\ ds.connection = "active" /\ response.outcome = "ok"
    /\ ~normalize_query_results(block, response.rows).raised

\* C25: in the response of the dashboard data endpoint, a block whose query
\* compiles and executes is returned with success true and the normalized
\* x and series of its rows; a block is returned with success false and
\* data null only when its own compilation or execution failed.
C25_BlockOfDashboardSucceeds ==
    (response # Pending /\ response.view = "DashboardInstanceViewSet.data") =>
        /\ WouldSucceed(applied_filters) =>
              /\ response.body.success
              /\ DOMAIN response.body.data = {"x", "series"}
              /\ response.body.data.x = normalize_query_results(block, response.rows).x
        /\ ~response.body.success => ~WouldSucceed(applied_filters)

\* C26: the block data endpoint answers success true only when the block's
\* query succeeded, with the normalized x and series object as data; when
\* the query fails it answers success false with the error.
C26_BlockEndpointReportsFailure ==
    (response # Pending /\ response.view = "DashboardBlockViewSet.data") =>
        /\ response.body.success =>
              /\ WouldSucceed(<<>>)
              /\ DOMAIN response.body.data = {"x", "series"}
        /\ ~WouldSucceed(<<>>) =>
              /\ ~response.body.success
              /\ "error" \in DOMAIN response.body


(***************************************************************************)
(* Claims about DashboardTemplate.get_filter_metadata (SpecFilter).        *)
(***************************************************************************)
\* The applied conditions with something to compare with: a comparison, or
\* a membership in a list that is not empty.
AppliedConditions ==
    {c \in UNION {{<<applied_filters[i][1], applied_filters[i][2][j][1],
                     applied_filters[i][2][j][2]>> :
                        j \in 1..Len(applied_filters[i][2])} : i \in 1..Len(applied_filters)} :
        \/ c[2] \in {"gte", "lte", "gt", "lt", "eq"}
        \/ c[2] = "in" /\ c[3].t = "list" /\ c[3].l # <<>>}

\* The clause the condition is written as.
AppliedClause(c) ==
    LET name == "%(filter_" \o c[1] \o "_" \o c[2] \o ")s"
    IN  CASE c[2] = "gte" -> c[1] \o " >= " \o name
          [] c[2] = "lte" -> c[1] \o " <= " \o name
          [] c[2] = "gt"  -> c[1] \o " > " \o name
          [] c[2] = "lt"  -> c[1] \o " < " \o name
          [] c[2] = "eq"  -> c[1] \o " = " \o name
          [] OTHER        -> c[1] \o " = ANY(" \o name \o ")"

\* The query q applies the condition c: its clause is among the conjuncts of
\* the query text and its operand is bound.
Applies(q, c) ==
    /\ \E i \in 1..Len(q.where_clauses) : q.where_clauses[i] = AppliedClause(c)
    /\ (SearchSubstring(q.query, " AND " \o AppliedClause(c))
        \/ SearchSubstring(q.query, " WHERE " \o AppliedClause(c)))
    /\ DictHas(q.params, "filter_" \o c[1] \o "_" \o c[2])
    /\ DictGet(q.params, "filter_" \o c[1] \o "_" \o c[2]) = c[3]

\* C27: each query that computes the values (or the minimum and maximum) of
\* a filterable field F applies every applied condition on a field other
\* than F, applies no condition on F, and applies the instance filter when
\* there is one; it has no other conjunct.
C27_OtherFiltersApplied ==
    filter_queries # Pending =>
        \A n \in 1..Len(filter_queries.queries) :
            LET q      == filter_queries.queries[n]
                others == {c \in AppliedConditions : c[1] # q.field}
            IN  /\ \A c \in others : Applies(q, c)
                /\ \A c \in AppliedConditions \ others :
                      /\ ~Applies(q, c)
                      /\ ~SearchSubstring(q.query, AppliedClause(c))
                /\ \A k \in DictKeys(q.params) :
                      ~StartsWith(k, "filter_" \o q.field \o "_")
                /\ instance_filter_sql # "" =>
                      /\ q.where_clauses[1] = "(" \o instance_filter_sql \o ")"
                      /\ SearchSubstring(q.query, "(" \o instance_filter_sql \o ")")
                /\ Len(q.where_clauses) =
                      Cardinality(others) + (IF instance_filter_sql # "" THEN 1 ELSE 0)

\* The values of region are computed for a request that filters on region
\* and on sold_at, for an instance with a filter.
C27_Witness ==
    /\ filter_queries # Pending
    /\ instance_filter_sql # ""
    /\ \E c \in AppliedConditions : c[1] = "region"
    /\ \E c \in AppliedConditions : c[1] = "sold_at"
    /\ \E n \in 1..Len(filter_queries.queries) :
          /\ filter_queries.queries[n].field = "region"
          /\ Len(filter_queries.queries[n].where_clauses) >= 2


(***************************************************************************)
(* Further claims about DataSource.save (SpecSave).                        *)
(***************************************************************************)
\* The contract columns of a record that are filled in.
MappedColumns(self) ==
    SelectSeq(<<self.metric_date_column, self.metric_value_column,
                self.series_key_column, self.unit_id_column>>,
              LAMBDA col : col # NoField)

\* C28: a record stored by save with contract_validated true has its
\* metric_date_column and metric_value_column filled in, every mapped
\* contract column among its detected_columns, and no column mapped twice.
C28_ValidatedContractIsValid ==
    (last_save # Pending /\ ~last_save.raised /\ db.contract_validated) =>
        /\ db.metric_date_column # NoField
        /\ db.metric_value_column # NoField
        /\ \A i \in 1..Len(MappedColumns(db)) : InSeq(MappedColumns(db)[i], db.detected_columns)
        /\ \A i, j \in 1..Len(MappedColumns(db)) :
              MappedColumns(db)[i] = MappedColumns(db)[j] => i = j


\* C29: in a record stored by save, detected_columns is the list of the
\* column names of columns_metadata whenever columns_metadata is not empty,
\* and after a save that attempted the introspection last_validation_error
\* is empty exactly when the latest attempt succeeded.
C29_DetectedColumnsFollowMetadata ==
    (last_save # Pending /\ ~last_save.raised) =>
        /\ db.columns_metadata # <<>> => db.detected_columns = Names(db.columns_metadata)
        /\ last_save.attempt # "none" =>
              ((db.last_validation_error = "") <=> (last_save.attempt = "success"))


(***************************************************************************)
(* Further claims about build_analytical_query (SpecBuild).                *)
(***************************************************************************)
\* The positions of text where a placeholder opens, and the name of the
\* placeholder opening at position i: the characters up to the next ")".
PlaceholderOpenings(text) == {i \in 1..(Len(text) - 1) : SubSeq(text, i, i + 1) = "%("}
PlaceholderName(text, i) ==
    LET close == CHOOSE j \in (i + 2)..Len(text) :
                    /\ CharAt(text, j) = ")"
                    /\ \A k \in (i + 2)..(j - 1) : CharAt(text, k) # ")"
    IN  SubSeq(text, i + 2, close - 1)
PlaceholderNames(text) == {PlaceholderName(text, i) : i \in PlaceholderOpenings(text)}

\* C30: the names of the %(name)s placeholders of the SQL that
\* build_analytical_query returns are the keys of the params it returns, each
\* name is written once, and two clauses never hold the same name.
C30_PlaceholdersAreParams ==
    (built # Pending /\ ~built.raised) =>
        /\ PlaceholderNames(built.final_query) = DictKeys(built.params)
        /\ Cardinality(PlaceholderOpenings(built.final_query)) = Len(built.params)
        /\ \A i, j \in 1..Len(built.where_clauses) :
              i # j => PlaceholderNames(built.where_clauses[i])
                          \cap PlaceholderNames(built.where_clauses[j]) = {}

\* A query with a date bound, a membership and a comparison, built for a
\* filter set that also holds a condition with an unknown operator or an
\* unusable IN operand and a filter on an unknown field.
C30_Witness ==
    /\ built # Pending /\ ~built.raised
    /\ {"date_start", "dim_region"} \subseteq DictKeys(built.params)
    /\ \E i \in 1..Len(intent.filters.dynamic_filters) :
          /\ intent.filters.dynamic_filters[i][1] = "amount"
          /\ Len(intent.filters.dynamic_filters[i][2]) = 2
          /\ Cardinality({k \in DictKeys(built.params) : StartsWith(k, "dyn_")}) = 1
    /\ \E i \in 1..Len(intent.filters.dynamic_filters) :
          intent.filters.dynamic_filters[i][1] = "nope"

====
